---- MODULE Spec2Model ----
(***************************************************************************)
(* BibInject: the BibTeX parser (src/src/parser.py), the ordering,         *)
(* grouping and rendering of entries (src/src/group_gen.py), the template  *)
(* renderer (src/src/gen.py) and the injection into a host document        *)
(* (src/src/injector.py).                                                  *)
(*                                                                         *)
(* A Python str is a sequence of one-character strings.  Python indexes    *)
(* from 0 and the sequences here from 1: a variable or result that holds a *)
(* Python index (pos, at_pos, brace_pos, the end of a match) keeps the     *)
(* Python value, and s[i + 1] is the character at Python index i.          *)
(***************************************************************************)
EXTENDS Integers, Sequences, FiniteSets, TLC

(* ------------------------------------------------------------------ *)
(* Bounds of the model.                                                 *)
(* ------------------------------------------------------------------ *)

\* Longest bibliography text, in blocks, handed to one parse_string call.
MaxBlocks == 3

\* Most parse_string calls made on one Parser.
MaxCalls == 2

\* Longest entry list handed to order_entries / group_entries.
MaxEntries == 3

(* ------------------------------------------------------------------ *)
(* Characters and the str methods the code uses.                        *)
(* ------------------------------------------------------------------ *)

UpperLetters ==
  <<"A","B","C","D","E","F","G","H","I","J","K","L","M",
    "N","O","P","Q","R","S","T","U","V","W","X","Y","Z">>

LowerLetters ==
  <<"a","b","c","d","e","f","g","h","i","j","k","l","m",
    "n","o","p","q","r","s","t","u","v","w","x","y","z">>

DigitChars == <<"0","1","2","3","4","5","6","7","8","9">>

Range(f) == { f[i] : i \in DOMAIN f }

IsSpace(c) == c \in {" ", "\t", "\n", "\r"}

IsUpper(c) == c \in Range(UpperLetters)

IsAlpha(c) == c \in Range(UpperLetters) \cup Range(LowerLetters)

IsDigitChar(c) == c \in Range(DigitChars)

\* The regular expression class \w (ASCII part).
IsWord(c) == IsAlpha(c) \/ IsDigitChar(c) \/ c = "_"

LowerChar(c) ==
  IF IsUpper(c)
    THEN LowerLetters[CHOOSE i \in DOMAIN UpperLetters : UpperLetters[i] = c]
    ELSE c

\* str.lower()
Lower(s) == [i \in DOMAIN s |-> LowerChar(s[i])]

\* s[a:b] of Python, for 0 <= a and b <= len(s).
Slice(s, a, b) == IF b <= a THEN <<>> ELSE SubSeq(s, a + 1, b)

\* The least and the greatest number of a non-empty set of integers.
Least(S) == CHOOSE i \in S : \A j \in S : i <= j
Greatest(S) == CHOOSE i \in S : \A j \in S : j <= i

\* Number of leading characters of s that are in the set cs.
LeadIn(s, cs) ==
  LET others == {i \in 1..Len(s) : s[i] \notin cs}
  IN  IF others = {} THEN Len(s) ELSE Least(others) - 1

\* Number of trailing characters of s that are in the set cs.
TrailIn(s, cs) ==
  LET others == {i \in 1..Len(s) : s[i] \notin cs}
  IN  IF others = {} THEN Len(s) ELSE Len(s) - Greatest(others)

\* str.strip(chars): every leading and trailing character of the set goes.
StripChars(s, cs) ==
  LET From(a) ==
        IF a = Len(s) THEN <<>> ELSE Slice(s, a, Len(s) - TrailIn(s, cs))
  IN  From(LeadIn(s, cs))

WhiteSpace == {" ", "\t", "\n", "\r"}

\* str.strip()
Strip(s) == StripChars(s, WhiteSpace)

\* str.find(c, start) for a one-character c: the Python index, or -1.
Find(s, c, start) ==
  LET hits == {i \in start..(Len(s) - 1) : s[i + 1] = c}
  IN  IF hits = {} THEN -1 ELSE Least(hits)

\* Whether pat occurs in s at Python index i.
MatchAt(s, pat, i) ==
  /\ i + Len(pat) <= Len(s)
  /\ \A k \in 1..Len(pat) : s[i + k] = pat[k]

\* str.startswith(pat)
StartsWith(s, pat) == MatchAt(s, pat, 0)

\* pat in s
Contains(s, pat) == \E i \in 0..Len(s) : MatchAt(s, pat, i)

\* str.replace(pat, rep): the occurrences of pat from left to right,
\* none overlapping another (pat is never empty here).
RECURSIVE Replace(_, _, _)
Replace(s, pat, rep) ==
  IF s = <<>> THEN <<>>
  ELSE IF MatchAt(s, pat, 0)
    THEN rep \o Replace(Slice(s, Len(pat), Len(s)), pat, rep)
    ELSE <<Head(s)>> \o Replace(Tail(s), pat, rep)

\* str.split(sep) for a non-empty sep: the pieces between the occurrences
\* of sep, empty pieces included.
RECURSIVE SplitFrom(_, _, _)
SplitFrom(s, sep, cur) ==
  IF s = <<>> THEN <<cur>>
  ELSE IF MatchAt(s, sep, 0)
    THEN <<cur>> \o SplitFrom(Slice(s, Len(sep), Len(s)), sep, <<>>)
    ELSE SplitFrom(Tail(s), sep, Append(cur, Head(s)))

Split(s, sep) == SplitFrom(s, sep, <<>>)

\* str.split(): the maximal runs of characters that are not white space.
RECURSIVE SplitWords(_, _)
SplitWords(s, cur) ==
  IF s = <<>> THEN (IF cur = <<>> THEN <<>> ELSE <<cur>>)
  ELSE IF IsSpace(Head(s))
    THEN (IF cur = <<>> THEN <<>> ELSE <<cur>>) \o SplitWords(Tail(s), <<>>)
    ELSE SplitWords(Tail(s), Append(cur, Head(s)))

\* str.isdigit() (ASCII digits)
IsDigitStr(s) == s # <<>> /\ \A i \in DOMAIN s : IsDigitChar(s[i])

DigitVal(c) == (CHOOSE i \in DOMAIN DigitChars : DigitChars[i] = c) - 1

\* int(s) for a string of digits.
RECURSIVE ToInt(_)
ToInt(s) ==
  IF s = <<>> THEN 0
  ELSE 10 * ToInt(SubSeq(s, 1, Len(s) - 1)) + DigitVal(s[Len(s)])

(* ------------------------------------------------------------------ *)
(* parser.py: the helpers of Parser.                                    *)
(* ------------------------------------------------------------------ *)

\* The maximal run of white space around the newline s[k] (indexes
\* from 1), as the pair of its first and last index.
RunAround(s, k) ==
  << 1 + Greatest({0} \cup {j \in 1..k : ~IsSpace(s[j])}),
     Least({Len(s) + 1} \cup {j \in k..Len(s) : ~IsSpace(s[j])}) - 1 >>

\* re.sub(r"\s*\n\s*", " ", content): every maximal run of white space
\* that holds a newline becomes one space; other characters are copied.
NormalizeLines(s) ==
  LET Fold(runs) ==
        LET Keep(i) == \A r \in runs : ~(r[1] < i /\ i <= r[2])
            Copy(kept) ==
              [k \in 1..Len(kept) |->
                 IF \E r \in runs : r[1] = kept[k] THEN " " ELSE s[kept[k]]]
        IN  Copy(SelectSeq([i \in 1..Len(s) |-> i], Keep))
  IN  Fold({RunAround(s, k) : k \in {n \in 1..Len(s) : s[n] = "\n"}})

\* The depth counter of _extract_brace_block after the characters at
\* the indexes start + 1 .. k: 1 for the opening brace, +1 for each "{",
\* -1 for each "}".
DepthAfter(s, start, k) ==
  1 + Cardinality({i \in (start + 1)..k : s[i + 1] = "{"})
    - Cardinality({i \in (start + 1)..k : s[i + 1] = "}"})

\* _extract_brace_block(s, start).  The loop runs while depth > 0: it
\* stops after the first "}" that brings the depth to 0, or at the end
\* of s; ok is FALSE where the code raises ParsingError (unbalanced).
ExtractBraceBlock(s, start) ==
  LET Result(closers) ==
        IF closers = {}
          THEN [ok |-> FALSE, content |-> <<>>, end |-> Len(s)]
          ELSE [ok |-> TRUE,
                content |-> Slice(s, start + 1, Least(closers)),
                end |-> Least(closers) + 1]
  IN  Result({k \in (start + 1)..(Len(s) - 1) :
                s[k + 1] = "}" /\ DepthAfter(s, start, k) = 0})

\* _parse_key_value(text): ok is FALSE where the code returns {}.
ParseKeyValue(text) ==
  LET Result(eq) ==
        IF eq = -1
          THEN [ok |-> FALSE, name |-> <<>>, value |-> <<>>]
          ELSE [ok |-> TRUE,
                name |-> Strip(Slice(text, 0, eq)),
                value |-> StripChars(
                            StripChars(Strip(Slice(text, eq + 1, Len(text))),
                                       {","}),
                            {"\"", "{", "}"})]
  IN  Result(Find(text, "=", 0))

\* The items (?:[^{}]|{[^{}]*})* of the field pattern, matched greedily
\* from index i: the index where they stop.  An item is one character
\* that is no brace, or a brace pair with no brace inside.
RECURSIVE BraceItems(_, _)
BraceItems(s, i) ==
  LET Plain(j) == LeadIn(Slice(s, j, Len(s)), Range(s) \ {"{", "}"})
      Pair(j) ==
        IF j < Len(s) /\ s[j + 1] = "}" THEN BraceItems(s, j + 1) ELSE i
  IN  IF i >= Len(s) THEN i
      ELSE IF s[i + 1] = "}" THEN i
      ELSE IF s[i + 1] = "{" THEN Pair(i + 1 + Plain(i + 1))
      ELSE BraceItems(s, i + Plain(i))

\* The value group ({(?:[^{}]|{[^{}]*})*}|".*?"|[^,{}]+) tried at index q:
\* the end of the first alternative that matches, or -1.
ValueGroupEnd(s, q) ==
  LET Pick(c, k, quote, bare) ==
        IF c = "{" /\ k < Len(s) /\ s[k + 1] = "}" THEN k + 1
        ELSE IF c = "\"" /\ quote # -1 THEN quote + 1
        ELSE IF bare > 0 THEN q + bare
        ELSE -1
  IN  IF q >= Len(s) THEN -1
      ELSE Pick(s[q + 1], BraceItems(s, q + 1), Find(s, "\"", q + 1),
                LeadIn(Slice(s, q, Len(s)), Range(s) \ {",", "{", "}"}))

\* re.match of the field pattern
\*   \s*([\w\-]+)\s*=\s*({(?:[^{}]|{[^{}]*})*}|".*?"|[^,{}]+)\s*,?
\* on text t: group 1 (key), group 2 (raw) and the end of the match.
\* a..b is the key, eq the index of "=", p the index after it, q the
\* index after the white space that follows, e1 the end of the value
\* group tried at q.  The \s* after "=" is greedy and gives characters
\* back: when no alternative matches at q, the white space character
\* before q is itself matched by [^,{}]+.
MatchField(t) ==
  LET none == [ok |-> FALSE, key |-> <<>>, raw |-> <<>>, end |-> 0]
      Spaces(i) == LeadIn(Slice(t, i, Len(t)), WhiteSpace)
      Matched(a, b, g, e, w) ==
        [ok |-> TRUE, key |-> Slice(t, a, b), raw |-> Slice(t, g, e),
         end |-> IF w < Len(t) /\ t[w + 1] = "," THEN w + 1 ELSE w]
      Group(a, b, p, q, e1) ==
        IF e1 # -1 THEN Matched(a, b, q, e1, e1 + Spaces(e1))
        ELSE IF q = p THEN none
        ELSE Matched(a, b, q - 1, q, q)
      Equals(a, b, eq) ==
        IF b = a \/ eq >= Len(t) \/ t[eq + 1] # "=" THEN none
        ELSE Group(a, b, eq + 1, eq + 1 + Spaces(eq + 1),
                   ValueGroupEnd(t, eq + 1 + Spaces(eq + 1)))
      Key(a, b) == Equals(a, b, b + Spaces(b))
      Start(a) ==
        Key(a, a + LeadIn(Slice(t, a, Len(t)),
                          {c \in Range(t) : IsWord(c) \/ c = "-"}))
  IN  Start(Spaces(0))

\* re.match(r"^[A-Za-z_][A-Za-z0-9_]*$", value)
IsBareWord(v) ==
  /\ v # <<>>
  /\ IsAlpha(v[1]) \/ v[1] = "_"
  /\ \A i \in DOMAIN v : IsWord(v[i])

\* A variant of LookupMacro that finds nothing, used to show that the
\* properties of expansion depend on the lookup.
NoLookup(strings, v) == v

\* The for loop over self.data["strings"]: the value of the first macro
\* named v, or v itself when there is none.
RECURSIVE LookupMacro(_, _)
LookupMacro(strings, v) ==
  IF strings = <<>> THEN v
  ELSE IF Head(strings).name = v THEN Head(strings).value
  ELSE LookupMacro(Tail(strings), v)

\* The value stored for a field: one strip of the raw text, one strip of
\* quotes, braces and spaces, then the macro lookup on what is left.
FieldValue(raw, expand, strings) ==
  LET Expand(value) ==
        IF expand /\ IsBareWord(value) THEN LookupMacro(strings, value)
        ELSE value
  IN  Expand(StripChars(Strip(raw), {"\"", "{", "}", " "}))

\* fields[key] = value
PutField(fields, key, value) ==
  [n \in DOMAIN fields \cup {key} |-> IF n = key THEN value ELSE fields[n]]

\* The while loop of _parse_entry over fields_text.
RECURSIVE ParseFields(_, _, _, _)
ParseFields(t, fields, expand, strings) ==
  LET Matched(m) ==
        IF ~m.ok THEN fields
        ELSE ParseFields(Slice(t, m.end, Len(t)),
                         PutField(fields, m.key,
                                  FieldValue(m.raw, expand, strings)),
                         expand, strings)
  IN  IF t = <<>> THEN fields ELSE Matched(MatchField(t))

NoFields == [n \in {} |-> <<>>]

\* _parse_entry(entry_type, text): re.match(r"\s*([^,]+)\s*,(.*)") needs
\* a first comma with at least one character before it; without it the
\* code returns {"type", "raw"}, an entry with no key.
ParseEntry(entry_type, text, expand, strings) ==
  LET Result(comma) ==
        IF comma < 1
          THEN [type |-> entry_type, key |-> <<>>, fields |-> NoFields]
          ELSE [type |-> entry_type,
                key |-> Strip(Slice(text, 0, comma)),
                fields |-> ParseFields(Slice(text, comma + 1, Len(text)),
                                       NoFields, expand, strings)]
  IN  Result(Find(text, ",", 0))

(* ------------------------------------------------------------------ *)
(* Bibliography texts: the blocks of the dialect                        *)
(*   @type{key, field = value, ...}  @string{name = "value"}            *)
(*   @comment{...}  @preamble{"..."}                                    *)
(* A block is written down by what it says (kind, tag, key, fields) and *)
(* BlockText gives its characters; a text is a sequence of blocks, one  *)
(* blank line between two blocks.                                       *)
(* ------------------------------------------------------------------ *)

NJ == <<"N","J">>
AB == <<"A","B">>
Nice == <<"N","i","c","e">>
New == <<"N","e","w">>
K1 == <<"k","1">>
K2 == <<"k","2">>
JOURNAL == <<"j","o","u","r","n","a","l">>
NOTE == <<"n","o","t","e">>
TITLE == <<"t","i","t","l","e">>
SERIES == <<"s","e","r","i","e","s">>

\* How a value is delimited in the text: bare, {braces} or "quotes".
Delimited(form, body) ==
  IF form = "brace" THEN <<"{">> \o body \o <<"}">>
  ELSE IF form = "quote" THEN <<"\"">> \o body \o <<"\"">>
  ELSE body

Corpus ==
  << \* 1: @string{NJ = "Nice"}
     [kind |-> "string", tag |-> <<"s","t","r","i","n","g">>,
      name |-> NJ, form |-> "quote", body |-> Nice],
     \* 2: @string{NJ = {New}}, a second definition of NJ
     [kind |-> "string", tag |-> <<"s","t","r","i","n","g">>,
      name |-> NJ, form |-> "brace", body |-> New],
     \* 3: @STRING{AB = "NJ"}, a macro whose value is a macro name
     [kind |-> "string", tag |-> <<"S","T","R","I","N","G">>,
      name |-> AB, form |-> "quote", body |-> NJ],
     \* 4: @ARTICLE{k1, journal = NJ, note = {NJ}, title = "NJ", series = AB}
     [kind |-> "entry", tag |-> <<"A","R","T","I","C","L","E">>, key |-> K1,
      fields |-> << [name |-> JOURNAL, form |-> "bare", body |-> NJ],
                    [name |-> NOTE, form |-> "brace", body |-> NJ],
                    [name |-> TITLE, form |-> "quote", body |-> NJ],
                    [name |-> SERIES, form |-> "bare", body |-> AB] >>],
     \* 5: @book{k1, journal = {Other One}}, the key of block 4 again
     [kind |-> "entry", tag |-> <<"b","o","o","k">>, key |-> K1,
      fields |-> << [name |-> JOURNAL, form |-> "brace",
                     body |-> <<"O","t","h","e","r"," ","O","n","e">>] >>],
     \* 6: @misc{k2, title = {A {B} C}, journal = NJ}
     [kind |-> "entry", tag |-> <<"m","i","s","c">>, key |-> K2,
      fields |-> << [name |-> TITLE, form |-> "brace",
                     body |-> <<"A"," ","{","B","}"," ","C">>],
                    [name |-> JOURNAL, form |-> "bare", body |-> NJ] >>],
     \* 7: @comment{see @string{NJ = "X"}}: a block inside a comment
     [kind |-> "comment", tag |-> <<"c","o","m","m","e","n","t">>,
      body |-> <<"s","e","e"," ","@","s","t","r","i","n","g","{",
                 "N","J"," ","="," ","\"","X","\"","}">>],
     \* 8: @preamble{"Pre"}
     [kind |-> "preamble", tag |-> <<"p","r","e","a","m","b","l","e">>,
      body |-> <<"P","r","e">>],
     \* 9: @string{NJ}: no "=", a malformed macro
     [kind |-> "bad", text |-> <<"@","s","t","r","i","n","g","{","N","J","}">>],
     \* 10: @misc{k2 and nothing more: the block is never closed
     [kind |-> "bad", text |-> <<"@","m","i","s","c","{","k","2">>]
  >>

\* The texts handed to a reused Parser: texts that define a macro, use
\* one, repeat a key, hold comments and preambles, or fail part-way.
ReuseDocs ==
  { <<>>, <<4>>, <<1, 4>>, <<2, 4>>, <<4, 5>>, <<5>>, <<6>>, <<3, 1, 6>>,
    <<7, 8>>, <<1, 9>>, <<4, 10>>, <<7, 1, 6, 9>> }

RECURSIVE FieldsText(_)
FieldsText(fs) ==
  IF fs = <<>> THEN <<>>
  ELSE <<",", "\n", " ", " ">> \o Head(fs).name \o <<" ", "=", " ">>
       \o Delimited(Head(fs).form, Head(fs).body) \o FieldsText(Tail(fs))

BlockText(b) ==
  IF b.kind = "bad" THEN b.text
  ELSE IF b.kind = "entry"
    THEN <<"@">> \o b.tag \o <<"{">> \o b.key \o FieldsText(b.fields)
         \o <<"\n", "}">>
  ELSE IF b.kind = "string"
    THEN <<"@">> \o b.tag \o <<"{">> \o b.name \o <<" ", "=", " ">>
         \o Delimited(b.form, b.body) \o <<"}">>
  ELSE IF b.kind = "preamble"
    THEN <<"@">> \o b.tag \o <<"{", "\n", " ", " ">>
         \o Delimited("quote", b.body) \o <<"\n", "}">>
  ELSE <<"@">> \o b.tag \o <<"{">> \o b.body \o <<"}">>

\* The text of the blocks d (indexes into Corpus).
RECURSIVE BibText(_)
BibText(d) ==
  IF d = <<>> THEN <<>>
  ELSE BlockText(Corpus[Head(d)])
       \o (IF Len(d) > 1 THEN <<"\n", "\n">> ELSE <<>>) \o BibText(Tail(d))

\* The sequences of at most n blocks drawn from the set bs.
RECURSIVE Docs(_, _)
Docs(bs, n) ==
  IF n = 0 THEN {<<>>}
  ELSE LET shorter == Docs(bs, n - 1)
       IN  shorter \cup {Append(d, b) : d \in shorter, b \in bs}

(* ------------------------------------------------------------------ *)
(* group_gen.py: GroupHTMLGenerator.order_entries and group_entries.    *)
(* ------------------------------------------------------------------ *)

UNKNOWN == <<"U","n","k","n","o","w","n">>

\* GroupHTMLGenerator.MONTH_ORDER
MONTH_ORDER ==
  << <<"J","a","n","u","a","r","y">>,
     <<"F","e","b","r","u","a","r","y">>,
     <<"M","a","r","c","h">>,
     <<"A","p","r","i","l">>,
     <<"M","a","y">>,
     <<"J","u","n","e">>,
     <<"J","u","l","y">>,
     <<"A","u","g","u","s","t">>,
     <<"S","e","p","t","e","m","b","e","r">>,
     <<"O","c","t","o","b","e","r">>,
     <<"N","o","v","e","m","b","e","r">>,
     <<"D","e","c","e","m","b","e","r">>,
     UNKNOWN >>

\* month_names = self.MONTH_ORDER[:-1]
month_names == SubSeq(MONTH_ORDER, 1, Len(MONTH_ORDER) - 1)

\* order_entries: month_map, as pairs <<key, number>>
month_map ==
  { <<<<"j","a","n">>, 1>>,
    <<<<"j","a","n","u","a","r","y">>, 1>>,
    <<<<"f","e","b">>, 2>>,
    <<<<"f","e","b","r","u","a","r","y">>, 2>>,
    <<<<"m","a","r">>, 3>>,
    <<<<"m","a","r","c","h">>, 3>>,
    <<<<"a","p","r">>, 4>>,
    <<<<"a","p","r","i","l">>, 4>>,
    <<<<"m","a","y">>, 5>>,
    <<<<"j","u","n">>, 6>>,
    <<<<"j","u","n","e">>, 6>>,
    <<<<"j","u","l">>, 7>>,
    <<<<"j","u","l","y">>, 7>>,
    <<<<"a","u","g">>, 8>>,
    <<<<"a","u","g","u","s","t">>, 8>>,
    <<<<"s","e","p">>, 9>>,
    <<<<"s","e","p","t","e","m","b","e","r">>, 9>>,
    <<<<"o","c","t">>, 10>>,
    <<<<"o","c","t","o","b","e","r">>, 10>>,
    <<<<"n","o","v">>, 11>>,
    <<<<"n","o","v","e","m","b","e","r">>, 11>>,
    <<<<"d","e","c">>, 12>>,
    <<<<"d","e","c","e","m","b","e","r">>, 12>> }

AUTHOR == <<"a","u","t","h","o","r">>
YEAR == <<"y","e","a","r">>
MONTH == <<"m","o","n","t","h">>

\* fields.get(name, default)
Get(fields, name, default) ==
  IF name \in DOMAIN fields THEN fields[name] ELSE default

\* month_map.get(m, 0)
MonthNumber(m) ==
  IF \E p \in month_map : p[1] = m
    THEN (CHOOSE p \in month_map : p[1] = m)[2]
    ELSE 0

\* The characters of the model's texts in code point order: Python
\* compares strings character by character by code point.
CharOrder ==
  <<" ", ",", "-", ".">> \o DigitChars \o UpperLetters \o <<"_">>
  \o LowerLetters

CodePoint(c) == CHOOSE i \in DOMAIN CharOrder : CharOrder[i] = c

\* a < b for two tuples of integers, as Python compares tuples (and
\* strings, by the code points of their characters).
LessSeq(a, b) ==
  \E k \in 1..(Len(a) + 1) :
    /\ \A i \in 1..(k - 1) : i <= Len(b) /\ a[i] = b[i]
    /\ k <= Len(b)
    /\ k <= Len(a) => a[k] < b[k]

\* The code points of the characters of s.
CodePoints(s) == [i \in DOMAIN s |-> CodePoint(s[i])]

\* A variant of Sorted that leaves the list as it is.
Unsorted(entries, keys, reverse) == entries

\* sorted(entries, key=..., reverse=reverse), keys[i] being the key of
\* entries[i].  The sort is stable; reverse=True gives descending keys
\* and keeps, as reverse=False does, the input order of equal keys.
Sorted(entries, keys, reverse) ==
  LET Before(ks, j, i) ==
        \/ IF reverse THEN LessSeq(ks[i], ks[j]) ELSE LessSeq(ks[j], ks[i])
        \/ ks[j] = ks[i] /\ j < i
      Rank(ks, i) ==
        1 + Cardinality({j \in DOMAIN entries : Before(ks, j, i)})
      Place(ks) ==
        [r \in DOMAIN entries |->
           entries[CHOOSE i \in DOMAIN entries : Rank(ks, i) = r]]
  IN  Place(SubSeq(keys, 1, Len(keys)))

AND_SEP == <<" ","a","n","d"," ">>

\* order_entries: get_last_name(author_field), for a str or no field.
get_last_name(author_field) ==
  LET LastWord(parts) == IF parts = <<>> THEN <<>> ELSE parts[Len(parts)]
      Last(primary) ==
        IF Contains(primary, <<",">>)
          THEN Slice(primary, 0, Find(primary, ",", 0))
          ELSE LastWord(SplitWords(primary, <<>>))
      First(authors) ==
        IF authors = <<>> THEN <<>> ELSE Strip(Lower(Last(authors[1])))
      NonEmpty(a) == Strip(a) # <<>>
      Stripped(kept) == [k \in DOMAIN kept |-> Strip(kept[k])]
      Authors(s) == Stripped(SelectSeq(Split(s, AND_SEP), NonEmpty))
      Separated(s) ==
        Replace(
          Replace(
            Replace(
              Replace(s, <<" ","A","N","D"," ">>, AND_SEP),
              <<" ","A","n","d"," ">>, AND_SEP),
            <<" ","A","N","D">>, AND_SEP),
          <<"a","n","d">>, AND_SEP)
  IN  IF author_field = <<>> THEN <<>>
      ELSE First(Authors(Separated(Strip(author_field))))

\* order_entries: year_month_key(entry)
year_month_key(entry) ==
  LET Year(year_raw) == IF IsDigitStr(year_raw) THEN ToInt(year_raw) ELSE 0
  IN  << Year(Get(entry.fields, YEAR, <<>>)),
         MonthNumber(Lower(Strip(Get(entry.fields, MONTH, <<>>)))) >>

\* order_entries: author_key(entry)
author_key(entry) == get_last_name(Get(entry.fields, AUTHOR, <<>>))

\* order_entries(entries, reverse, group), lines 149-152.
order_entries(entries, reverse, group) ==
  IF group = "author"
    THEN Sorted(entries,
                [i \in DOMAIN entries |-> CodePoints(author_key(entries[i]))],
                reverse)
    ELSE Sorted(entries,
                [i \in DOMAIN entries |-> year_month_key(entries[i])],
                reverse)

\* A dict is the sequence of its items [key, value] in insertion order,
\* the order in which Python iterates over it.
HasKey(grouped, k) == \E i \in DOMAIN grouped : grouped[i].key = k

Keys(grouped) == [i \in DOMAIN grouped |-> grouped[i].key]

Value(grouped, k) ==
  grouped[CHOOSE i \in DOMAIN grouped : grouped[i].key = k].value

\* A variant of SetDefaultAppend that puts the entry at the head of its
\* list.
SetDefaultPrepend(grouped, k, entry) ==
  IF HasKey(grouped, k)
    THEN [i \in DOMAIN grouped |->
            IF grouped[i].key = k
              THEN [key |-> k, value |-> <<entry>> \o grouped[i].value]
              ELSE grouped[i]]
    ELSE Append(grouped, [key |-> k, value |-> <<entry>>])

\* grouped.setdefault(k, []).append(entry)
SetDefaultAppend(grouped, k, entry) ==
  IF HasKey(grouped, k)
    THEN [i \in DOMAIN grouped |->
            IF grouped[i].key = k
              THEN [key |-> k, value |-> Append(grouped[i].value, entry)]
              ELSE grouped[i]]
    ELSE Append(grouped, [key |-> k, value |-> <<entry>>])

\* grouped.setdefault(y, {}).setdefault(m, []).append(entry)
SetDefaultNested(grouped, y, m, entry) ==
  IF HasKey(grouped, y)
    THEN [i \in DOMAIN grouped |->
            IF grouped[i].key = y
              THEN [key |-> y,
                    value |-> SetDefaultAppend(grouped[i].value, m, entry)]
              ELSE grouped[i]]
    ELSE Append(grouped,
                [key |-> y, value |-> SetDefaultAppend(<<>>, m, entry)])

\* group_entries, lines 175-181: the authors of an entry.  The test for
\* the separator lowercases the string; the split does not.
AuthorList(fields) ==
  LET Stripped(parts) == [k \in DOMAIN parts |-> Strip(parts[k])]
      Listed(authors) ==
        IF Contains(Lower(authors), AND_SEP)
          THEN Stripped(Split(authors, AND_SEP))
          ELSE <<authors>>
  IN  IF AUTHOR \in DOMAIN fields THEN Listed(fields[AUTHOR]) ELSE <<>>

\* Lines 183-184: for author in authors: setdefault(author, []).append(entry)
RECURSIVE FileUnder(_, _, _)
FileUnder(grouped, authors, entry) ==
  IF authors = <<>> THEN grouped
  ELSE FileUnder(SetDefaultAppend(grouped, Head(authors), entry),
                 Tail(authors), entry)

\* Lines 173-186.
RECURSIVE GroupByAuthor(_, _)
GroupByAuthor(entries, grouped) ==
  IF entries = <<>> THEN grouped
  ELSE GroupByAuthor(Tail(entries),
                     FileUnder(grouped, AuthorList(Head(entries).fields),
                               Head(entries)))

\* A variant of MonthKey that knows no month.
UnknownMonth(fields) == UNKNOWN

\* Lines 198-210 and 215: the month key of an entry.
MonthKey(fields) ==
  LET Named(v, hits) ==
        IF hits = {} THEN UNKNOWN ELSE month_names[Least(hits)]
      Prefix(v) == Slice(v, 0, IF Len(v) < 3 THEN Len(v) ELSE 3)
      Key(v) ==
        IF v = <<>> THEN UNKNOWN
        ELSE IF IsDigitStr(v)
          THEN (IF ToInt(v) \in 1..12 THEN month_names[ToInt(v)] ELSE UNKNOWN)
        ELSE Named(v, {i \in DOMAIN month_names :
                         StartsWith(Lower(month_names[i]), Prefix(v))})
  IN  Key(Lower(Strip(Get(fields, MONTH, <<>>))))

\* Lines 194-220.
RECURSIVE GroupByYear(_, _, _)
GroupByYear(entries, nested, grouped) ==
  LET Filed(entry, year) ==
        IF nested
          THEN SetDefaultNested(grouped, year, MonthKey(entry.fields), entry)
          ELSE SetDefaultAppend(grouped, year, entry)
  IN  IF entries = <<>> THEN grouped
      ELSE GroupByYear(Tail(entries), nested,
                       Filed(Head(entries),
                             Get(Head(entries).fields, YEAR, UNKNOWN)))

\* by in ("year/month", "ym", "month")
IsYearMonthGroup(by) == by \in {"year/month", "ym", "month"}

\* group_entries(entries, by, reverse): reverse is not used.
group_entries(entries, by, reverse) ==
  IF by = "author" THEN GroupByAuthor(entries, <<>>)
  ELSE GroupByYear(entries, IsYearMonthGroup(by), <<>>)


(* ------------------------------------------------------------------ *)
(* gen.py: Generator.  The regular expressions of the module are        *)
(* matched as re matches them: the leftmost match, greedy runs, the      *)
(* matches of re.sub from left to right and none overlapping another.   *)
(* ------------------------------------------------------------------ *)

\* The Python index of the first character at or after i that is not in
\* the set cs, Len(s) when there is none: the end of a greedy run.
RunEnd(s, i, cs) ==
  Least({j \in i..Len(s) : j = Len(s) \/ s[j + 1] \notin cs})

\* Whether the Python index i is where a line of s starts ("^" under
\* re.MULTILINE).
LineStart(s, i) == i = 0 \/ s[i] = "\n"

\* Whether the Python index i is where a line of s ends ("$" under
\* re.MULTILINE).
LineEnd(s, i) == i = Len(s) \/ s[i + 1] = "\n"

\* The first Python index at or after start where pat occurs in s, or -1.
FindSeq(s, pat, start) ==
  LET hits == {i \in start..(Len(s) - Len(pat)) : MatchAt(s, pat, i)}
  IN  IF hits = {} THEN -1 ELSE Least(hits)

\* The rules of _trim, lines 163-178, in the order the code applies
\* them: the pattern of each, and the text its matches are replaced by.
TrimRules ==
  << [rule |-> "parens", rep |-> <<>>],        \* \(\s*\)      -> ""
     [rule |-> "space_comma", rep |-> <<",">>], \* \s+,         -> ","
     [rule |-> "space_period", rep |-> <<".">>],\* \s+\.        -> "."
     [rule |-> "comma_comma", rep |-> <<",">>], \* ,\s*,        -> ","
     [rule |-> "comma_period", rep |-> <<".">>],\* ,\s*\.       -> "."
     [rule |-> "period_period", rep |-> <<".">>],\* \.\s*\.     -> "."
     [rule |-> "spaces", rep |-> <<" ">>],      \* [ ]{2,}      -> " "
     [rule |-> "line_edges", rep |-> <<>>] >>   \* ^[ ]+|[ ]+$  -> ""

\* first \s* last, matched at the Python index i: the end of the match,
\* or -1.
Bracketed(s, i, first, last) ==
  LET Close(e) == IF e < Len(s) /\ s[e + 1] = last THEN e + 1 ELSE -1
  IN  IF s[i + 1] = first THEN Close(RunEnd(s, i + 1, WhiteSpace)) ELSE -1

\* \s+ last, matched at the Python index i: the end of the match, or -1.
SpaceBefore(s, i, last) ==
  LET Close(e) == IF e < Len(s) /\ s[e + 1] = last THEN e + 1 ELSE -1
  IN  IF IsSpace(s[i + 1]) THEN Close(RunEnd(s, i, WhiteSpace)) ELSE -1

\* The end of the match of a rule of _trim at the Python index i
\* (i < len(s)), or -1 when the rule does not match there.
TrimMatchEnd(rule, s, i) ==
  CASE rule = "parens" -> Bracketed(s, i, "(", ")")
    [] rule = "space_comma" -> SpaceBefore(s, i, ",")
    [] rule = "space_period" -> SpaceBefore(s, i, ".")
    [] rule = "comma_comma" -> Bracketed(s, i, ",", ",")
    [] rule = "comma_period" -> Bracketed(s, i, ",", ".")
    [] rule = "period_period" -> Bracketed(s, i, ".", ".")
    [] rule = "spaces" ->
         LET Run(e) == IF e - i >= 2 THEN e ELSE -1
         IN  Run(RunEnd(s, i, {" "}))
    [] rule = "line_edges" ->
         LET Edge(e) ==
               IF e > i /\ (LineStart(s, i) \/ LineEnd(s, e)) THEN e ELSE -1
         IN  Edge(RunEnd(s, i, {" "}))

\* re.sub(pattern, rep, s) for a rule of _trim, from the Python index i
\* on: the text up to the next match is copied, the match is replaced,
\* and the scan goes on where the match ended.
RECURSIVE TrimSub(_, _, _, _)
TrimSub(rule, rep, s, i) ==
  LET Go(hits) ==
        IF hits = {} THEN Slice(s, i, Len(s))
        ELSE LET At(j) ==
                   Slice(s, i, j) \o rep
                     \o TrimSub(rule, rep, s, TrimMatchEnd(rule, s, j))
             IN  At(Least(hits))
  IN  Go({j \in i..(Len(s) - 1) : TrimMatchEnd(rule, s, j) # -1})

\* The rules n, n + 1, ... of _trim applied one after the other.
RECURSIVE TrimFrom(_, _)
TrimFrom(text, n) ==
  IF n > Len(TrimRules) THEN text
  ELSE TrimFrom(TrimSub(TrimRules[n].rule, TrimRules[n].rep, text, 0), n + 1)

\* A variant of _trim that leaves the text as it is.
NoTrim(text) == text

\* Generator._trim(text)
_trim(text) == TrimFrom(text, 1)

WordChars == Range(UpperLetters) \cup Range(LowerLetters)
               \cup Range(DigitChars) \cup {"_"}

\* \{\{\s*(\w+)\s*\}\} matched at the Python index i: ok, the bounds of
\* group 1 and the end of the match.
MatchPlaceholder(s, i) ==
  LET NoMatch == [ok |-> FALSE, from |-> 0, to |-> 0, end |-> 0]
      Close(a, b, c) ==
        IF b > a /\ MatchAt(s, <<"}", "}">>, c)
          THEN [ok |-> TRUE, from |-> a, to |-> b, end |-> c + 2]
          ELSE NoMatch
      Word(a, b) == Close(a, b, RunEnd(s, b, WhiteSpace))
      Open(a) == Word(a, RunEnd(s, a, WordChars))
  IN  IF MatchAt(s, <<"{", "{">>, i)
        THEN Open(RunEnd(s, i + 2, WhiteSpace))
        ELSE NoMatch

\* replacer(match), lines 138-144: the value of the field, or "" and a
\* warning when fields.get(key) is None.
Replacer(fields, key) ==
  IF key \in DOMAIN fields
    THEN [text |-> fields[key], warnings |-> <<>>]
    ELSE [text |-> <<>>, warnings |-> <<key>>]

\* A variant of Substitute that leaves the placeholders in the text.
NoSubstitute(middle, fields, i) ==
  [text |-> Slice(middle, i, Len(middle)), warnings |-> <<>>]

\* re.sub(r"\{\{\s*(\w+)\s*\}\}", replacer, middle), line 146, from the
\* Python index i on, with the warnings logged on the way.  What
\* replacer returns is copied to the result and not scanned.
RECURSIVE Substitute(_, _, _)
Substitute(middle, fields, i) ==
  LET Go(hits) ==
        IF hits = {}
          THEN [text |-> Slice(middle, i, Len(middle)), warnings |-> <<>>]
        ELSE LET Join(j, r, rest) ==
                   [text |-> Slice(middle, i, j) \o r.text \o rest.text,
                    warnings |-> r.warnings \o rest.warnings]
                 At(j, m) ==
                   Join(j, Replacer(fields, Strip(Slice(middle, m.from, m.to))),
                        Substitute(middle, fields, m.end))
                 First(j) == At(j, MatchPlaceholder(middle, j))
             IN  First(Least(hits))
  IN  Go({j \in i..(Len(middle) - 1) : MatchPlaceholder(middle, j).ok})

\* Generator._render(elements), lines 134-148: middle is the body after
\* the substitution, before _trim.
_render(elements, fields) ==
  LET Result(sub) ==
        [middle |-> sub.text,
         warnings |-> sub.warnings,
         value |-> elements[1] \o _trim(sub.text) \o elements[3]]
  IN  Result(Substitute(elements[2], fields, 0))

\* The run of blanks and tabs [ \t]* from the Python index i on.
Blanks == {" ", "\t"}

\* <p\s+id="bi-{type}"[^>]*>\s*\n matched after the indentation of the
\* line that starts at the Python index p: the end of the match, or -1.
\* \s*\n ends after the last newline of the white space that follows
\* the tag.  The entry types of the model hold no character that is
\* special in a regular expression.
MatchOpeningP(html, type, p) ==
  LET Newlines(c, d) == {k \in c..(d - 1) : html[k + 1] = "\n"}
      Tail2(c, d) ==
        IF Newlines(c, d) = {} THEN -1 ELSE Greatest(Newlines(c, d)) + 1
      Close(g) == IF g = -1 THEN -1 ELSE Tail2(g + 1, RunEnd(html, g + 1, WhiteSpace))
      Attr(b, attr) ==
        IF MatchAt(html, attr, b) THEN Close(Find(html, ">", b + Len(attr)))
        ELSE -1
      Tag(a) ==
        IF MatchAt(html, <<"<", "p">>, a)
             /\ a + 2 < Len(html) /\ IsSpace(html[a + 3])
          THEN Attr(RunEnd(html, a + 2, WhiteSpace),
                    <<"i","d","=","\"","b","i","-">> \o type \o <<"\"">>)
          ELSE -1
  IN  Tag(RunEnd(html, p, Blanks))

\* ^[ \t]*</p> matched at the line start q: the end of the match, or -1.
MatchClosingP(html, q) ==
  LET Tag(a) ==
        IF MatchAt(html, <<"<","/","p",">">>, a) THEN a + 4 ELSE -1
  IN  Tag(RunEnd(html, q, Blanks))

\* Generator._Splitter.split(), lines 60-73: the groups of the leftmost
\* match of the pattern, or HTMLElementNotFoundError.
SplitterSplit(html, type) ==
  LET LineStarts == {p \in 0..Len(html) : LineStart(html, p)}
      Closings(e) ==
        {q \in LineStarts : q >= e /\ MatchClosingP(html, q) # -1}
      Matches(p) ==
        /\ MatchOpeningP(html, type, p) # -1
        /\ Closings(MatchOpeningP(html, type, p)) # {}
      Groups(p, e, q) ==
        [raised |-> FALSE,
         value |-> <<Slice(html, p, e), Slice(html, e, q),
                     Slice(html, q, MatchClosingP(html, q))>>]
      From(p, e) == Groups(p, e, Least(Closings(e)))
      Pick(opens) ==
        IF opens = {}
          THEN [raised |-> TRUE, exc |-> "HTMLElementNotFoundError"]
          ELSE From(Least(opens), MatchOpeningP(html, type, Least(opens)))
  IN  Pick({p \in LineStarts : Matches(p)})

\* The pieces of the two hyperlinks of generate_html, lines 203-216: the
\* doi (and the icon locator) go between them.
DOI_HREF ==
    <<"\n","<","a"," ","h","r","e","f","=","\"","h","t","t","p","s",":",
      "/","/","d","o","i",".","o","r","g","/">>

DOI_TEXT_END ==
    <<"\""," ","t","a","r","g","e","t","=","\"","_","b","l","a","n","k",
      "\""," ","c","l","a","s","s","=","\"","d","o","i","-","l","i","n",
      "k","\""," ","a","r","i","a","-","l","a","b","e","l","=","\"","V",
      "i","e","w"," ","D","O","I","\""," ",">","D","O","I","<","/","a",
      ">">>

DOI_ICON_SRC ==
    <<"\""," ","t","a","r","g","e","t","=","\"","_","b","l","a","n","k",
      "\""," ","c","l","a","s","s","=","\"","d","o","i","-","l","i","n",
      "k","\""," ","a","r","i","a","-","l","a","b","e","l","=","\"","V",
      "i","e","w"," ","D","O","I","\""," ","s","t","y","l","e","=","\"",
      "d","i","s","p","l","a","y",":","i","n","l","i","n","e","-","f",
      "l","e","x",";"," ","a","l","i","g","n","-","i","t","e","m","s",
      ":","c","e","n","t","e","r",";"," ","g","a","p",":","4","p","x",
      ";","\"",">","<","i","m","g"," ","s","r","c","=","\"">>

DOI_ICON_END ==
    <<"\""," ","a","l","t","=","\"","D","O","I"," ","i","c","o","n",
      "\""," ","c","l","a","s","s","=","\"","d","o","i","-","i","c","o",
      "n","\"",">"," ","D","O","I","<","/","a",">">>

DOI == <<"d","o","i">>

\* The link generate_html builds: with the icon when doi_icon is true
\* for Python (<<>> stands for None and for ""), text-only otherwise.
DoiLink(doi, doi_icon) ==
  IF doi_icon # <<>>
    THEN DOI_HREF \o doi \o DOI_ICON_SRC \o doi_icon \o DOI_ICON_END
    ELSE DOI_HREF \o doi \o DOI_TEXT_END

\* The replacement template of re.sub, expanded for a match whose only
\* group is group1, from the Python index i of the template on.  A
\* backslash starts an escape: \\ is a backslash, \n \t \r \f the
\* control characters, \1 the group, another digit a group that does not
\* exist, \g a group reference that needs "<", any other ASCII letter a
\* bad escape; before any other character the backslash stays.  ok is
\* FALSE where re raises re.error.  (The templates of the model hold no
\* octal escape and none of \a \b \v.)
RECURSIVE ExpandTemplate(_, _, _)
ExpandTemplate(template, group1, i) ==
  LET Bad == [ok |-> FALSE, text |-> <<>>]
      Then(piece, rest) ==
        IF rest.ok THEN [ok |-> TRUE, text |-> piece \o rest.text] ELSE Bad
      Put(j, piece, next) ==
        Then(Slice(template, i, j) \o piece,
             ExpandTemplate(template, group1, next))
      Escape(j, c) ==
        CASE c = "\\" -> Put(j, <<"\\">>, j + 2)
          [] c = "n" -> Put(j, <<"\n">>, j + 2)
          [] c = "t" -> Put(j, <<"\t">>, j + 2)
          [] c = "r" -> Put(j, <<"\r">>, j + 2)
          [] c = "f" -> Put(j, <<"\f">>, j + 2)
          [] c = "1" ->
               IF j + 2 < Len(template) /\ IsDigitChar(template[j + 3])
                 THEN Bad
                 ELSE Put(j, group1, j + 2)
          [] c = "g" ->
               IF MatchAt(template, <<"<","1",">">>, j + 2)
                 THEN Put(j, group1, j + 5)
                 ELSE Bad
          [] IsAlpha(c) /\ c \notin {"n", "t", "r", "f", "g"} -> Bad
          [] IsDigitChar(c) /\ c # "1" -> Bad
          [] OTHER -> Put(j, <<"\\", c>>, j + 2)
      Next(j) ==
        IF j = -1
          THEN [ok |-> TRUE, text |-> Slice(template, i, Len(template))]
        ELSE IF j + 1 = Len(template) THEN Bad
        ELSE Escape(j, template[j + 2])
  IN  Next(Find(template, "\\", i))

\* re.sub(r"(<p[^>]*>)", r"\1" + doi_link, rendered, count=1), lines
\* 218-223: the first "<p" that a ">" follows is the match.
InsertDoiLink(rendered, doi_link) ==
  LET Replace1(i, g, rep) ==
        IF ~rep.ok THEN [raised |-> TRUE, exc |-> "re.error"]
        ELSE IF i = -1 THEN [raised |-> FALSE, value |-> rendered]
        ELSE [raised |-> FALSE,
              value |-> Slice(rendered, 0, i) \o rep.text
                          \o Slice(rendered, g + 1, Len(rendered))]
      Match(i, g) ==
        Replace1(IF g = -1 THEN -1 ELSE i, g,
                 ExpandTemplate(<<"\\", "1">> \o doi_link,
                                IF g = -1 THEN <<>>
                                ELSE Slice(rendered, i, g + 1), 0))
      Tag(i) == Match(i, IF i = -1 THEN -1 ELSE Find(rendered, ">", i + 2))
  IN  Tag(FindSeq(rendered, <<"<", "p">>, 0))

\* Generator._load_template(), lines 101-119, under the decorator of
\* error_handler: the stripped text of the file refspec/<style>, or None
\* when there is no such file or it is empty.  refspec maps the names of
\* the files that exist to their text.
_load_template(template_name, refspec) ==
  IF template_name \notin DOMAIN refspec THEN [none |-> TRUE, content |-> <<>>]
  ELSE IF Strip(refspec[template_name]) = <<>>
    THEN [none |-> TRUE, content |-> <<>>]
  ELSE [none |-> FALSE, content |-> Strip(refspec[template_name])]

\* Generator(entry, template_name, doi_icon).generate_html(), lines
\* 191-224.  re.search on None raises TypeError, split raises
\* HTMLElementNotFoundError, re.sub raises re.error; nothing catches
\* them here.
generate_html(entry, template_name, doi_icon, refspec) ==
  LET Link(rendered) ==
        IF Get(entry.fields, DOI, <<>>) = <<>>
          THEN [raised |-> FALSE, value |-> rendered]
          ELSE InsertDoiLink(rendered,
                             DoiLink(entry.fields[DOI], doi_icon))
      Rendered(parts) ==
        IF parts.raised THEN parts
        ELSE Link(_render(parts.value, entry.fields).value)
      Loaded(template) ==
        IF template.none THEN [raised |-> TRUE, exc |-> "TypeError"]
        ELSE Rendered(SplitterSplit(template.content, entry.type))
  IN  Loaded(_load_template(template_name, refspec))

(* ------------------------------------------------------------------ *)
(* group_gen.py: GroupHTMLGenerator.render_groups.                      *)
(* ------------------------------------------------------------------ *)

\* int(k) for a str k: white space around is dropped, a sign may come
\* first, and single underscores may stand between the digits.  ok is
\* FALSE where int raises ValueError.
IntOf(k) ==
  LET NotInt == [ok |-> FALSE, value |-> 0]
      Digits(d, sign) ==
        IF /\ d # <<>>
           /\ \A i \in DOMAIN d : IsDigitChar(d[i]) \/ d[i] = "_"
           /\ d[1] # "_" /\ d[Len(d)] # "_"
           /\ ~Contains(d, <<"_", "_">>)
          THEN [ok |-> TRUE,
                value |-> sign * ToInt(SelectSeq(d, IsDigitChar))]
          ELSE NotInt
      Signed(s) ==
        IF s = <<>> THEN NotInt
        ELSE IF s[1] = "-" THEN Digits(Tail(s), -1)
        ELSE IF s[1] = "+" THEN Digits(Tail(s), 1)
        ELSE Digits(s, 1)
  IN  Signed(Strip(k))

\* sort_key(k), lines 52-56: int(k), or str(k).lower() when int raises.
\* The key is a tuple of integers: the number alone, or the code points
\* of the text.
sort_key(k) ==
  LET Key(n) ==
        IF n.ok THEN [int |-> TRUE, key |-> <<n.value>>]
        ELSE [int |-> FALSE, key |-> CodePoints(Lower(k))]
  IN  Key(IntOf(k))

\* A variant of _sort_months that leaves the list as it is.
MonthsAsGiven(months) == months

\* _sort_months(months), lines 61-64: by the index in MONTH_ORDER, 999
\* for a name that is not in it.
_sort_months(months) ==
  LET Index(m) ==
        IF \E i \in DOMAIN MONTH_ORDER : MONTH_ORDER[i] = m
          THEN (CHOOSE i \in DOMAIN MONTH_ORDER : MONTH_ORDER[i] = m) - 1
          ELSE 999
  IN  Sorted(months, [i \in DOMAIN months |-> <<Index(months[i])>>], FALSE)

\* _sort_group_keys(keys, reverse), line 58.  sorted compares the keys
\* with "<": between an int and a str that raises TypeError, and a list
\* that holds both cannot be sorted without such a comparison.
_sort_group_keys(keys, reverse) ==
  LET Order(sk) ==
        IF \E i, j \in DOMAIN sk : sk[i].int /\ ~sk[j].int
          THEN [raised |-> TRUE, exc |-> "TypeError"]
          ELSE [raised |-> FALSE,
                value |-> Sorted(keys, [i \in DOMAIN sk |-> sk[i].key],
                                 reverse)]
  IN  Order([i \in DOMAIN keys |-> sort_key(keys[i])])

\* sep.join(parts)
RECURSIVE Join(_, _)
Join(parts, sep) ==
  IF parts = <<>> THEN <<>>
  ELSE IF Len(parts) = 1 THEN parts[1]
  ELSE parts[1] \o sep \o Join(Tail(parts), sep)

\* isinstance(group_items, dict): the items of a mapping have a key and
\* a value, an entry has not.
IsDict(group_items) ==
  group_items # <<>> /\ "value" \in DOMAIN group_items[1]

H2(name) == <<"<","h","2",">">> \o name \o <<"<","/","h","2",">">>
H3(name) == <<"<","h","3",">">> \o name \o <<"<","/","h","3",">">>

\* The html_parts of the entries of one list, lines 240-241 and 244-245:
\* what _render_entry gives for each, an exception included.
EntryParts(entries, style, refspec) ==
  [i \in DOMAIN entries |->
     generate_html(entries[i], style, <<>>, refspec)]

\* The html_parts of a (year, month) bucket, lines 237-241, for the
\* months in the order given.
RECURSIVE MonthParts(_, _, _, _)
MonthParts(group_items, months, style, refspec) ==
  IF months = <<>> THEN <<>>
  ELSE << [raised |-> FALSE, value |-> H3(Head(months))] >>
         \o EntryParts(Value(group_items, Head(months)), style, refspec)
         \o MonthParts(group_items, Tail(months), style, refspec)

\* The block of one group, line 247, or the first exception raised
\* while its parts were rendered.
GroupBlock(group_name, group_items, style, refspec) ==
  LET Block(parts) ==
        IF \E i \in DOMAIN parts : parts[i].raised
          THEN parts[Least({i \in DOMAIN parts : parts[i].raised})]
          ELSE [raised |-> FALSE,
                value |-> H2(group_name) \o <<"\n">>
                            \o Join([i \in DOMAIN parts |-> parts[i].value],
                                    <<"\n", "\n">>)]
      Forced(parts) == Block(SubSeq(parts, 1, Len(parts)))
  IN  IF IsDict(group_items)
        THEN Forced(MonthParts(group_items,
                               _sort_months(Keys(group_items)),
                               style, refspec))
        ELSE Forced(EntryParts(group_items, style, refspec))

\* render_groups(grouped_entries, reverse), lines 229-250, of a
\* GroupHTMLGenerator(style): the HTML, or the exception that ends the
\* call (nothing in render_groups catches one).
render_groups(grouped_entries, reverse, style, refspec) ==
  LET Blocks(bs) ==
        IF \E i \in DOMAIN bs : bs[i].raised
          THEN bs[Least({i \in DOMAIN bs : bs[i].raised})]
          ELSE [raised |-> FALSE,
                value |-> Join([i \in DOMAIN bs |-> bs[i].value],
                               <<"\n", "\n">>)]
      Render(group_keys) ==
        IF group_keys.raised THEN group_keys
        ELSE Blocks(SubSeq([i \in DOMAIN group_keys.value |->
                              GroupBlock(group_keys.value[i],
                                         Value(grouped_entries,
                                               group_keys.value[i]),
                                         style, refspec)],
                           1, Len(group_keys.value)))
  IN  Render(_sort_group_keys(Keys(grouped_entries), reverse))

(* ------------------------------------------------------------------ *)
(* parser.py: Parser.parse_string as a state machine, one step per      *)
(* iteration of its while loop.                                         *)
(* ------------------------------------------------------------------ *)

VARIABLES
  expand_strings, \* Parser.expand_strings
  data,           \* Parser.data
  content,        \* parse_string: content, after the re.sub
  pos,            \* parse_string: pos
  seen_keys,      \* parse_string: seen_keys
  pc,             \* "idle", "scan" (in the loop), "done", "failed"
  ret,            \* what the last call returned
  doc,            \* the blocks of the text the call was given
  scanned,        \* iterations of the loop completed in this call
  calls,          \* parse_string calls made on this Parser
  prev,           \* how the call before this one ended: "none", "done", "failed"
  log_records,    \* what the call has sent to the logger of error_handler
  g_entries,      \* order_entries / group_entries: entries
  g_reverse,      \* reverse
  g_by,           \* group (order_entries), by (group_entries)
  g_op,           \* "none", "order", "group": the call made
  g_out,          \* its result
  h_call,         \* a call of the rendering or injection code: the
                  \* method and its arguments
  h_done,         \* whether the call was made
  h_out,          \* what it returned or raised
  injector_html   \* Injector.html

parser_vars ==
  <<expand_strings, data, content, pos, seen_keys, pc, ret, doc, scanned,
    calls, prev, log_records>>

group_vars == <<g_entries, g_reverse, g_by, g_op, g_out>>

html_vars == <<h_call, h_done, h_out, injector_html>>

vars == <<parser_vars, group_vars, html_vars>>

\* Parser.__init__: self.data
InitData ==
  [entries |-> <<>>, comments |-> <<>>, preambles |-> <<>>, strings |-> <<>>]

\* A variant of ResetData that keeps the data of the call before.
KeepData(old) == old

\* parse_string, line 64: self.data is set anew at the start of a call.
ResetData(old) ==
  [entries |-> <<>>, comments |-> <<>>, preambles |-> <<>>, strings |-> <<>>]

\* What a call returns: the data, or None when the handler caught an error.
Returned(d) == [none |-> FALSE, data |-> d]
ReturnedNone == [none |-> TRUE, data |-> InitData]

\* Variants of KeepEntry and MacroTable, used to show that the properties
\* checked depend on them.
KeepAll(key, seen) == TRUE
NoMacros(d) == <<>>

\* Line 115: an entry is kept when its key was not seen before.
KeepEntry(key, seen) == key \notin seen

\* Line 242: the macros an entry's bare words are looked up in.
MacroTable(d) == d.strings

COMMENT == <<"c","o","m","m","e","n","t">>
PREAMBLE == <<"p","r","e","a","m","b","l","e">>
STRINGTAG == <<"s","t","r","i","n","g">>

\* One iteration of the while loop, lines 72-117, on the state
\* st = [data, pos, seen, pc]: the state after it, with the branch taken.
\* pc becomes "done" at line 74 and "failed" where ParsingError is raised
\* (lines 78, 84, 88 with 187, 104, 112).
Iterate(c, expand, st) ==
  LET Out(d, p, k, state, branch) ==
        [data |-> d, pos |-> p, seen |-> k, pc |-> state, branch |-> branch]
      Failed(p) == Out(st.data, p, st.seen, "failed", "error")
      Unquote(t) ==
        IF StartsWith(t, <<"\"">>) /\ t[Len(t)] = "\""
          THEN Slice(t, 1, Len(t) - 1) ELSE t
      OnComment(blk) ==
        Out([st.data EXCEPT !.comments = Append(@, Strip(blk.content))],
            blk.end, st.seen, "scan", "comment")
      OnPreamble(blk) ==
        Out([st.data EXCEPT
               !.preambles = Append(@, Unquote(Strip(blk.content)))],
            blk.end, st.seen, "scan", "preamble")
      OnString(blk, kv) ==
        IF ~kv.ok THEN Failed(blk.end)
        ELSE Out([st.data EXCEPT
                    !.strings = Append(@, [name |-> kv.name,
                                           value |-> kv.value])],
                 blk.end, st.seen, "scan", "string")
      OnEntry(blk, e) ==
        IF e.key = <<>> THEN Failed(blk.end)
        ELSE IF KeepEntry(e.key, st.seen)
          THEN Out([st.data EXCEPT !.entries = Append(@, e)],
                   blk.end, st.seen \cup {e.key}, "scan", "entry")
        ELSE Out(st.data, blk.end, st.seen, "scan", "entry")
      Dispatch(type, blk) ==
        IF ~blk.ok THEN Failed(st.pos)
        ELSE IF type = COMMENT THEN OnComment(blk)
        ELSE IF type = PREAMBLE THEN OnPreamble(blk)
        ELSE IF type = STRINGTAG
          THEN OnString(blk, ParseKeyValue(blk.content))
        ELSE OnEntry(blk, ParseEntry(type, blk.content, expand,
                                     MacroTable(st.data)))
      Typed(brace, type) ==
        IF type = <<>> THEN Failed(st.pos)
        ELSE Dispatch(type, ExtractBraceBlock(c, brace))
      Header(at, brace) ==
        IF brace = -1 THEN Failed(st.pos)
        ELSE Typed(brace, Lower(Strip(Slice(c, at + 1, brace))))
      At(at) ==
        IF at = -1 THEN Out(st.data, st.pos, st.seen, "done", "return")
        ELSE Header(at, Find(c, "{", at))
  IN  At(Find(c, "@", st.pos))

\* Lines 72-81: the entry type after the next "@" from pos, lowercased;
\* empty when there is no "@", no "{" after it, or no type between them.
NextType(c, p) ==
  LET Type(at, brace) ==
        IF at = -1 \/ brace = -1 THEN <<>>
        ELSE Lower(Strip(Slice(c, at + 1, brace)))
      At(at) == Type(at, IF at = -1 THEN -1 ELSE Find(c, "{", at))
  IN  At(Find(c, "@", p))

\* What an iteration sends to the logger: the info record of line 119
\* when the loop ends, the error record of error_handler.handle (line
\* 147 of error_handler.py) when ParsingError is raised, and nothing in
\* the other branches, the one of lines 115-117 that drops an entry
\* included.
LogOf(st) ==
  IF st.pc = "done"
    THEN << [level |-> "INFO", about |-> "parsed",
             entries |-> Len(st.data.entries)] >>
  ELSE IF st.pc = "failed"
    THEN << [level |-> "ERROR", about |-> "ParsingError", entries |-> 0] >>
  ELSE <<>>

\* The state the loop works on.
LoopState == [data |-> data, pos |-> pos, seen |-> seen_keys, pc |-> pc]

\* One iteration that takes the given branch.  A call that ends returns
\* self.data (line 122) or, through error_handler.handle, None.
Step(branch) ==
  LET Apply(st) ==
        /\ st.branch = branch
        /\ data' = st.data
        /\ pos' = st.pos
        /\ seen_keys' = st.seen
        /\ pc' = st.pc
        /\ ret' = IF st.pc = "done" THEN Returned(st.data)
                  ELSE IF st.pc = "failed" THEN ReturnedNone
                  ELSE ret
        /\ scanned' = IF st.pc = "scan" THEN scanned + 1 ELSE scanned
        /\ log_records' = log_records \o LogOf(st)
        /\ UNCHANGED <<expand_strings, content, doc, calls, prev, group_vars,
                       html_vars>>
  IN  Apply(Iterate(content, expand_strings, LoopState))

\* parse_string(content) is called with the text of the blocks d:
\* lines 64-70.
ParseCall(d) ==
  /\ doc' = d
  /\ data' = ResetData(data)
  /\ seen_keys' = {}
  /\ content' = NormalizeLines(BibText(d))
  /\ pos' = 0
  /\ pc' = "scan"
  /\ scanned' = 0
  /\ calls' = calls + 1
  /\ prev' = IF pc = "idle" THEN "none" ELSE pc
  /\ log_records' = <<>>
  /\ UNCHANGED <<expand_strings, ret, group_vars, html_vars>>

\* The first call on a Parser.
ParseString ==
  /\ pc = "idle"
  /\ \E d \in Docs(DOMAIN Corpus, MaxBlocks) : ParseCall(d)

\* A call on a Parser, new or used before (the call before it returned
\* or failed).
ParseStringReuse ==
  /\ pc \in {"idle", "done", "failed"}
  /\ calls < MaxCalls
  /\ \E d \in ReuseDocs : ParseCall(d)

\* Lines 94-95.
ScanComment ==
  /\ pc = "scan"
  /\ NextType(content, pos) = COMMENT
  /\ Step("comment")

\* Lines 96-100.
ScanPreamble ==
  /\ pc = "scan"
  /\ NextType(content, pos) = PREAMBLE
  /\ Step("preamble")

\* Lines 101-107, the macro is well formed.
ScanString ==
  /\ pc = "scan"
  /\ NextType(content, pos) = STRINGTAG
  /\ Step("string")

\* Lines 108-117, the entry has a key.
ScanEntry ==
  /\ pc = "scan"
  /\ NextType(content, pos) \notin {<<>>, COMMENT, PREAMBLE, STRINGTAG}
  /\ Step("entry")

\* ParsingError is raised; the handler of error_handler.handle logs it
\* and the call returns None.
RaiseParsingError ==
  /\ pc = "scan"
  /\ Find(content, "@", pos) # -1
  /\ Step("error")

\* Lines 73-74 and 119-122: no "@" is left, the call returns self.data.
ParseReturn ==
  /\ pc = "scan"
  /\ Find(content, "@", pos) = -1
  /\ Step("return")

(* ------------------------------------------------------------------ *)
(* The entry lists handed to order_entries and group_entries.           *)
(* ------------------------------------------------------------------ *)

EntryPool ==
  <<
     \* e1: year = "2024", month = "March", author = "Sandra Bullock"
     [type |-> <<"a","r","t","i","c","l","e">>, key |-> <<"e","1">>,
      fields |-> (YEAR :> <<"2","0","2","4">>) @@ (MONTH :> <<"M","a","r","c","h">>) @@ (AUTHOR :> <<"S","a","n","d","r","a"," ","B","u","l","l","o","c","k">>)],
     \* e2: year = "2024", month = "January", author = "Doe, John and Smith, Al"
     [type |-> <<"a","r","t","i","c","l","e">>, key |-> <<"e","2">>,
      fields |-> (YEAR :> <<"2","0","2","4">>) @@ (MONTH :> <<"J","a","n","u","a","r","y">>) @@ (AUTHOR :> <<"D","o","e",","," ","J","o","h","n"," ","a","n","d"," ","S","m","i","t","h",","," ","A","l">>)],
     \* e3: year = "2023", author = "A AND B"
     [type |-> <<"b","o","o","k">>, key |-> <<"e","3">>,
      fields |-> (YEAR :> <<"2","0","2","3">>) @@ (AUTHOR :> <<"A"," ","A","N","D"," ","B">>)],
     \* e4: year = "2022", month = "3"
     [type |-> <<"m","i","s","c">>, key |-> <<"e","4">>,
      fields |-> (YEAR :> <<"2","0","2","2">>) @@ (MONTH :> <<"3">>)],
     \* e5: month = " mar", author = ""
     [type |-> <<"m","i","s","c">>, key |-> <<"e","5">>,
      fields |-> (MONTH :> <<" ","m","a","r">>) @@ (AUTHOR :> <<>>)],
     \* e6: year = "n.d.", month = "Sept", author = "Al Smith aNd Bo Lee"
     [type |-> <<"b","o","o","k">>, key |-> <<"e","6">>,
      fields |-> (YEAR :> <<"n",".","d",".">>) @@ (MONTH :> <<"S","e","p","t">>) @@ (AUTHOR :> <<"A","l"," ","S","m","i","t","h"," ","a","N","d"," ","B","o"," ","L","e","e">>)],
     \* e7: year = "2024", month = "13", author = "al smith"
     [type |-> <<"a","r","t","i","c","l","e">>, key |-> <<"e","7">>,
      fields |-> (YEAR :> <<"2","0","2","4">>) @@ (MONTH :> <<"1","3">>) @@ (AUTHOR :> <<"a","l"," ","s","m","i","t","h">>)],
     \* e8: year = "2024", month = "march", author = "Bo Lee and Al Smith"
     [type |-> <<"a","r","t","i","c","l","e">>, key |-> <<"e","8">>,
      fields |-> (YEAR :> <<"2","0","2","4">>) @@ (MONTH :> <<"m","a","r","c","h">>) @@ (AUTHOR :> <<"B","o"," ","L","e","e"," ","a","n","d"," ","A","l"," ","S","m","i","t","h">>)]
  >>

\* The lists of at most MaxEntries entries of the pool.
EntryLists ==
  {[k \in DOMAIN d |-> EntryPool[d[k]]] :
     d \in Docs(DOMAIN EntryPool, MaxEntries)}

\* order_entries(entries, reverse, group) is called.
OrderEntries ==
  /\ g_op = "none"
  /\ \E r \in BOOLEAN, g \in {"author", "year"} :
       /\ g_reverse' = r
       /\ g_by' = g
       /\ g_op' = "order"
       /\ g_out' = order_entries(g_entries, r, g)
  /\ UNCHANGED <<parser_vars, g_entries, html_vars>>

\* group_entries(entries, by, reverse) is called.
GroupEntries ==
  /\ g_op = "none"
  /\ \E r \in BOOLEAN,
        b \in {"author", "year", "year/month", "ym", "month"} :
       /\ g_reverse' = r
       /\ g_by' = b
       /\ g_op' = "group"
       /\ g_out' = group_entries(g_entries, b, r)
  /\ UNCHANGED <<parser_vars, g_entries, html_vars>>

(* ------------------------------------------------------------------ *)
(* Specifications of the parser.                                        *)
(* ------------------------------------------------------------------ *)

GroupIdle ==
  /\ g_reverse = FALSE
  /\ g_by = <<>>
  /\ g_op = "none"
  /\ g_out = <<>>

\* Parser(expand_strings): a new Parser.
ParserInit ==
  /\ expand_strings \in BOOLEAN
  /\ data = InitData
  /\ content = <<>>
  /\ pos = 0
  /\ seen_keys = {}
  /\ pc = "idle"
  /\ ret = ReturnedNone
  /\ doc = <<>>
  /\ scanned = 0
  /\ calls = 0
  /\ prev = "none"
  /\ log_records = <<>>

\* No call of the rendering or injection code is at hand.
HtmlIdle ==
  /\ h_call = [op |-> "none"]
  /\ h_done = FALSE
  /\ h_out = <<>>
  /\ injector_html = <<>>

Init == ParserInit /\ GroupIdle /\ g_entries = <<>> /\ HtmlIdle

\* One parse_string call on a new Parser.
Next ==
  \/ ParseString
  \/ ScanComment
  \/ ScanPreamble
  \/ ScanString
  \/ ScanEntry
  \/ RaiseParsingError
  \/ ParseReturn

Spec == Init /\ [][Next]_vars

\* A Parser used for call after call.
NextReuse ==
  \/ ParseStringReuse
  \/ ScanComment
  \/ ScanPreamble
  \/ ScanString
  \/ ScanEntry
  \/ RaiseParsingError
  \/ ParseReturn

SpecReuse == Init /\ [][NextReuse]_vars

\* One call of order_entries or group_entries on a list of entries,
\* beside a Parser built as run_injection_pipeline builds it.
NextGroup ==
  \/ OrderEntries
  \/ GroupEntries

InitGroup ==
  /\ ParserInit
  /\ expand_strings = TRUE
  /\ GroupIdle
  /\ g_entries \in EntryLists
  /\ HtmlIdle

SpecGroup == InitGroup /\ [][NextGroup]_vars

(* ------------------------------------------------------------------ *)
(* The text of a call, read from its block descriptions.                *)
(* ------------------------------------------------------------------ *)

\* The parse_string call on a new Parser, run to its end.
RECURSIVE RunLoop(_, _, _)
RunLoop(c, expand, st) ==
  IF st.pc # "scan" THEN st
  ELSE RunLoop(c, expand, Iterate(c, expand, st))

FreshParse(text, expand) ==
  LET Result(st) ==
        IF st.pc = "done" THEN Returned(st.data) ELSE ReturnedNone
  IN  Result(RunLoop(NormalizeLines(text), expand,
                     [data |-> ResetData(InitData), pos |-> 0, seen |-> {},
                      pc |-> "scan"]))

IsEntryBlock(b) == Corpus[b].kind = "entry"
IsStringBlock(b) == Corpus[b].kind = "string"

\* The entry blocks of d with the given key, by position in d.
BlocksWithKey(d, key) ==
  {i \in DOMAIN d : IsEntryBlock(d[i]) /\ Corpus[d[i]].key = key}

\* The positions in d, before position i, of the @string blocks that
\* define the name.
DefinitionsBefore(d, i, name) ==
  {j \in 1..(i - 1) : IsStringBlock(d[j]) /\ Corpus[d[j]].name = name}

\* The @string definitions of the first n blocks of d, in document order.
DocMacros(d, n) ==
  LET Macro(b) == [name |-> Corpus[b].name, value |-> Corpus[b].body]
      defs == SelectSeq(SubSeq(d, 1, n), IsStringBlock)
  IN  [k \in DOMAIN defs |-> Macro(defs[k])]

\* The entry kept for the entry block at position i of d, when the call
\* has returned.
KeptEntry(d, i) ==
  CHOOSE e \in Range(data.entries) : e.key = Corpus[d[i]].key

\* The entry blocks of d that are the first with their key.
FirstBlocks(d) ==
  {i \in DOMAIN d : IsEntryBlock(d[i])
                    /\ i = Least(BlocksWithKey(d, Corpus[d[i]].key))}

\* The fields of the block at position i of d written in the given forms.
FieldsWritten(d, i, forms) ==
  {f \in Range(Corpus[d[i]].fields) : f.form \in forms}

(* ------------------------------------------------------------------ *)
(* Properties of Parser.parse_string.                                   *)
(* ------------------------------------------------------------------ *)

\* The entry that the block at position i of d stands for: what
\* _parse_entry makes of the text between its braces under the macros
\* defined by the blocks before it.
BlockEntry(d, i, expand) ==
  ParseEntry(Lower(Corpus[d[i]].tag),
             NormalizeLines(Corpus[d[i]].key
                            \o FieldsText(Corpus[d[i]].fields) \o <<"\n">>),
             expand, DocMacros(d, i - 1))

\* C1: the entries list never holds two entries with the same citation
\* key; when the call has returned, each key that occurs in entry blocks
\* has exactly one entry, and that entry has the type and the field
\* values of the first block with the key.
C1_FirstEntryWins ==
  /\ \A i, j \in DOMAIN data.entries :
       data.entries[i].key = data.entries[j].key => i = j
  /\ pc = "done" =>
       /\ {e.key : e \in Range(data.entries)}
            = {Corpus[doc[i]].key : i \in FirstBlocks(doc)}
       /\ \A i \in FirstBlocks(doc) :
            /\ KeptEntry(doc, i).type = Lower(Corpus[doc[i]].tag)
            /\ DOMAIN KeptEntry(doc, i).fields
                 = {f.name : f \in Range(Corpus[doc[i]].fields)}
            /\ KeptEntry(doc, i) = BlockEntry(doc, i, expand_strings)

\* C1 witness: a call has returned on a text where two entry blocks of
\* different types share a key.
C1_Witness ==
  /\ pc = "done"
  /\ \E i, j \in DOMAIN doc :
       /\ i < j
       /\ IsEntryBlock(doc[i]) /\ IsEntryBlock(doc[j])
       /\ Corpus[doc[i]].key = Corpus[doc[j]].key
       /\ Corpus[doc[i]].tag # Corpus[doc[j]].tag
  /\ Len(data.entries) = 1

\* C2 as written: with expansion on, for every @string{N = "V"} before an
\* entry, a field of the entry written as the bare token N has the value V.
C2_EveryDefinition ==
  (pc = "done" /\ expand_strings) =>
    \A i \in FirstBlocks(doc) :
      \A f \in FieldsWritten(doc, i, {"bare"}) :
        \A j \in DefinitionsBefore(doc, i, f.body) :
          KeptEntry(doc, i).fields[f.name] = Corpus[doc[j]].body

\* C2 amended: with expansion on, a field of an entry written as the bare
\* token N has the value V of the first @string block that defines N
\* before the entry.
C2_FirstDefinition ==
  (pc = "done" /\ expand_strings) =>
    \A i \in FirstBlocks(doc) :
      \A f \in FieldsWritten(doc, i, {"bare"}) :
        DefinitionsBefore(doc, i, f.body) # {} =>
          KeptEntry(doc, i).fields[f.name]
            = Corpus[doc[Least(DefinitionsBefore(doc, i, f.body))]].body

\* C2 witness: a call with expansion on has returned an entry with a bare
\* token that two @string blocks before it define with different values.
C2_Witness ==
  /\ pc = "done"
  /\ expand_strings
  /\ \E i \in FirstBlocks(doc) :
       \E f \in FieldsWritten(doc, i, {"bare"}) :
         \E j, k \in DefinitionsBefore(doc, i, f.body) :
           /\ j < k
           /\ Corpus[doc[j]].body # Corpus[doc[k]].body
           /\ KeptEntry(doc, i).fields[f.name] = Corpus[doc[j]].body

\* C3: macro visibility follows document order.  While the loop runs, the
\* macro table an entry would be looked up in holds exactly the @string
\* definitions of the blocks already scanned, in document order; and an
\* entry with a bare token N that no @string block before it defines
\* keeps the literal N, also when a later block defines N.
C3_DocumentOrder ==
  /\ pc = "scan" => MacroTable(data) = DocMacros(doc, scanned)
  /\ pc = "done" =>
       \A i \in FirstBlocks(doc) :
         \A f \in FieldsWritten(doc, i, {"bare"}) :
           DefinitionsBefore(doc, i, f.body) = {} =>
             KeptEntry(doc, i).fields[f.name] = f.body

\* C3 witness: a call with expansion on has returned an entry that keeps
\* the bare token N although a later @string block defines N.
C3_Witness ==
  /\ pc = "done"
  /\ expand_strings
  /\ \E i \in FirstBlocks(doc) :
       \E f \in FieldsWritten(doc, i, {"bare"}) :
         /\ DefinitionsBefore(doc, i, f.body) = {}
         /\ DefinitionsBefore(doc, Len(doc) + 1, f.body) # {}
         /\ KeptEntry(doc, i).fields[f.name] = f.body

\* C4: expansion applies only to bare tokens.  A field written in braces
\* or double quotes whose text is a defined macro name keeps that text; a
\* bare token gets the value of the first matching definition, and that
\* value is not expanded again.
C4_OnlyBareTokens ==
  (pc = "done" /\ expand_strings) =>
    \A i \in FirstBlocks(doc) :
      /\ \A f \in FieldsWritten(doc, i, {"brace", "quote"}) :
           KeptEntry(doc, i).fields[f.name] = f.body
      /\ \A f \in FieldsWritten(doc, i, {"bare"}) :
           DefinitionsBefore(doc, i, f.body) # {} =>
             KeptEntry(doc, i).fields[f.name]
               = Corpus[doc[Least(DefinitionsBefore(doc, i, f.body))]].body

\* C5: parser state is scoped to one call.  Whatever calls were made on
\* the Parser before, and however they ended, a call that has ended
\* returned what a new Parser returns for the same text, and left the
\* Parser's data as a new Parser's call leaves it.
C5_CallScoped ==
  pc \in {"done", "failed"} =>
    /\ ret = FreshParse(BibText(doc), expand_strings)
    /\ pc = "done" => data = ret.data

\* C5 witness: a second call has returned entries after a first call that
\* failed part-way.
C5_Witness ==
  /\ pc = "done"
  /\ calls = 2
  /\ prev = "failed"
  /\ ret.data.entries # <<>>

(* ------------------------------------------------------------------ *)
(* Properties of order_entries and group_entries.                       *)
(* ------------------------------------------------------------------ *)

\* The author strings split at the word "and" in any letter case: the
\* words between two such words, joined by one space.
RECURSIVE SegmentsOf(_, _)
SegmentsOf(words, cur) ==
  IF words = <<>> THEN <<cur>>
  ELSE IF Lower(Head(words)) = <<"a","n","d">>
    THEN <<cur>> \o SegmentsOf(Tail(words), <<>>)
  ELSE SegmentsOf(Tail(words),
                  IF cur = <<>> THEN Head(words)
                  ELSE cur \o <<" ">> \o Head(words))

ListedAuthors(author) == SegmentsOf(SplitWords(author, <<>>), <<>>)

\* The last name of a segment: the text before its first comma or,
\* without a comma, its last word; lowercased.
LastNameOf(segment) ==
  LET words == SplitWords(segment, <<>>)
  IN  IF Contains(segment, <<",">>)
        THEN Lower(Strip(Slice(segment, 0, Find(segment, ",", 0))))
      ELSE IF words = <<>> THEN <<>>
      ELSE Lower(words[Len(words)])

\* The key (year, month) of the entries e and f is in the order asked for.
InOrder(e, f, reverse) ==
  IF reverse THEN ~LessSeq(year_month_key(e), year_month_key(f))
             ELSE ~LessSeq(year_month_key(f), year_month_key(e))

\* C6: order_entries with a group other than "author" returns the
\* entries sorted by (year, month): the result is a rearrangement of the
\* input, ascending or (reverse) descending by key, and entries with
\* equal keys keep their input order in both directions.  The year is
\* the integer of the year field, 0 when absent or not a number; the
\* month is 1..12 by the table, 0 when absent or not in it.  (2024,
\* March), (2024, January), (2023, no month) with reverse come out in
\* that order.
C6_SortedByYearMonth ==
  /\ year_month_key(EntryPool[1]) = <<2024, 3>>
  /\ year_month_key(EntryPool[2]) = <<2024, 1>>
  /\ year_month_key(EntryPool[3]) = <<2023, 0>>
  /\ year_month_key(EntryPool[6]) = <<0, 0>>
  /\ year_month_key(EntryPool[7]) = <<2024, 0>>
  /\ year_month_key(EntryPool[8]) = <<2024, 3>>
  /\ (g_op = "order" /\ g_by # "author") =>
       /\ \E p \in Permutations(DOMAIN g_entries) :
            /\ g_out = [k \in DOMAIN g_entries |-> g_entries[p[k]]]
            /\ \A k, l \in DOMAIN g_entries :
                 k < l =>
                   /\ InOrder(g_out[k], g_out[l], g_reverse)
                   /\ year_month_key(g_out[k]) = year_month_key(g_out[l])
                        => p[k] < p[l]
       /\ (g_reverse
           /\ g_entries = <<EntryPool[1], EntryPool[2], EntryPool[3]>>)
            => g_out = g_entries

\* C6 witness: a descending sort has put the 2023 entry last and kept
\* the two (2024, March) entries in their input order.
C6_Witness ==
  /\ g_op = "order"
  /\ g_by # "author"
  /\ g_reverse
  /\ g_entries = <<EntryPool[8], EntryPool[3], EntryPool[1]>>
  /\ g_out = <<EntryPool[8], EntryPool[1], EntryPool[3]>>

\* C7: for group "author" the sort key of an entry is the lowercased
\* last name of its first listed author, the author string being split
\* at the word "and" in any letter case; a missing or empty author gives
\* the empty key.  "Sandra Bullock" has the key "bullock".
C7_LastNameKey ==
  (g_op = "order" /\ g_by = "author") =>
    \A i \in DOMAIN g_entries :
      author_key(g_entries[i])
        = LastNameOf(ListedAuthors(Get(g_entries[i].fields, AUTHOR, <<>>))[1])

\* C8: group_entries by author files every entry under each of its
\* listed authors: the buckets that hold an entry with an author field
\* are those of the names between the separators "and", whatever the
\* letter case of the separator.
C8_EveryListedAuthor ==
  (g_op = "group" /\ g_by = "author") =>
    \A i \in DOMAIN g_entries :
      AUTHOR \in DOMAIN g_entries[i].fields =>
        {g_out[k].key : k \in {n \in DOMAIN g_out :
                                g_entries[i] \in Range(g_out[n].value)}}
          = Range(ListedAuthors(g_entries[i].fields[AUTHOR]))

\* The month a field text v stands for: the month name of a digit string
\* 1..12; else the first month name that starts, case-insensitively, with
\* the first three characters of v; else "Unknown".
MonthOfText(v) ==
  LET hits == {i \in DOMAIN month_names :
                 StartsWith(Lower(month_names[i]),
                            Lower(Slice(v, 0, IF Len(v) < 3 THEN Len(v) ELSE 3)))}
  IN  IF v = <<>> THEN UNKNOWN
      ELSE IF IsDigitStr(v)
        THEN (IF ToInt(v) \in 1..12 THEN month_names[ToInt(v)] ELSE UNKNOWN)
      ELSE IF hits = {} THEN UNKNOWN
      ELSE month_names[Least(hits)]

\* The month of an entry, from its month field as written or (trim) with
\* the white space around it removed.
MonthOfEntry(e, trim) ==
  MonthOfText(IF trim THEN Strip(Get(e.fields, MONTH, <<>>))
              ELSE Get(e.fields, MONTH, <<>>))

\* Every entry is filed at grouped[year][month], and each bucket holds,
\* in input order, the entries of its year and month and no other.
FiledByYearMonth(trim) ==
  /\ \A i \in DOMAIN g_entries :
       /\ HasKey(g_out, Get(g_entries[i].fields, YEAR, UNKNOWN))
       /\ HasKey(Value(g_out, Get(g_entries[i].fields, YEAR, UNKNOWN)),
                 MonthOfEntry(g_entries[i], trim))
  /\ \A y \in DOMAIN g_out :
       \A m \in DOMAIN g_out[y].value :
         LET InBucket(e) ==
               /\ Get(e.fields, YEAR, UNKNOWN) = g_out[y].key
               /\ MonthOfEntry(e, trim) = g_out[y].value[m].key
         IN  /\ g_out[y].value[m].value = SelectSeq(g_entries, InBucket)
             /\ g_out[y].value[m].value # <<>>

\* C9 as written: group_entries by year and month files each entry at
\* grouped[year][month], the year being the year field verbatim or
\* "Unknown", the month following from the month field as written.
C9_MonthOfField ==
  (g_op = "group" /\ IsYearMonthGroup(g_by)) => FiledByYearMonth(FALSE)

\* C9 amended: as above, the month following from the month field with
\* the white space around it removed.
C9_MonthOfTrimmedField ==
  (g_op = "group" /\ IsYearMonthGroup(g_by)) => FiledByYearMonth(TRUE)

\* C9 witness: entries with the months "3", " mar" and "Sept" have been
\* filed under March, March and September.
C9_Witness ==
  /\ g_op = "group"
  /\ g_by = "ym"
  /\ g_entries = <<EntryPool[4], EntryPool[5], EntryPool[6]>>
  /\ Keys(g_out) = <<EntryPool[4].fields[YEAR], UNKNOWN,
                     EntryPool[6].fields[YEAR]>>
  /\ Value(g_out[1].value, MONTH_ORDER[3]) = <<EntryPool[4]>>
  /\ Value(g_out[2].value, MONTH_ORDER[3]) = <<EntryPool[5]>>
  /\ Value(g_out[3].value, MONTH_ORDER[9]) = <<EntryPool[6]>>

\* C10: group_entries by "year/month" with reverse=True returns a
\* mapping whose year keys iterate in descending year order, whatever
\* the order of the entries.
C10_YearsDescending ==
  (/\ g_op = "group"
   /\ g_by = "year/month"
   /\ g_reverse
   /\ \A i \in DOMAIN g_entries :
        IsDigitStr(Get(g_entries[i].fields, YEAR, <<>>))) =>
    \A k, l \in DOMAIN g_out :
      k < l => ToInt(g_out[k].key) > ToInt(g_out[l].key)

(* ------------------------------------------------------------------ *)
(* injector.py: Injector.                                               *)
(* ------------------------------------------------------------------ *)

LineBreaks == {"\n", "\r", "\f"}

\* str.splitlines() from the Python index i on: the lines between the
\* line breaks ("\r\n" is one break), with no empty line after the last
\* break.
RECURSIVE SplitLines(_, _)
SplitLines(s, i) ==
  LET Go(hits) ==
        IF hits = {} THEN << Slice(s, i, Len(s)) >>
        ELSE LET Cut(j) ==
                   << Slice(s, i, j) >>
                     \o SplitLines(s, IF MatchAt(s, <<"\r", "\n">>, j)
                                        THEN j + 2 ELSE j + 1)
             IN  Cut(Least(hits))
  IN  IF i >= Len(s) THEN <<>>
      ELSE Go({j \in i..(Len(s) - 1) : s[j + 1] \in LineBreaks})

\* Injector._detect_indent_unit(), lines 137-141: the leading white
\* space of the first line that has some before other characters, two
\* spaces when no line has.
_detect_indent_unit(html) ==
  LET Indented(line) ==
        LeadIn(line, WhiteSpace) > 0 /\ LeadIn(line, WhiteSpace) < Len(line)
      Unit(lines, hits) ==
        IF hits = {} THEN <<" ", " ">>
        ELSE Slice(lines[Least(hits)], 0,
                   LeadIn(lines[Least(hits)], WhiteSpace))
      Scan(lines) == Unit(lines, {n \in DOMAIN lines : Indented(lines[n])})
  IN  Scan(SplitLines(html, 0))

\* id=["']{target_id}["'] matched at the Python index k.  The ids of the
\* model hold no character that is special in a regular expression.
MatchIdAttr(html, target_id, k) ==
  /\ MatchAt(html, <<"i", "d", "=">>, k)
  /\ k + 4 + Len(target_id) < Len(html)
  /\ html[k + 4] \in {"\"", "'"}
  /\ MatchAt(html, target_id, k + 4)
  /\ html[k + 5 + Len(target_id)] \in {"\"", "'"}

\* <div\s+[^>]*{id_attr}[^>]*> matched at the Python index a: the end of
\* the match, or -1.  [^>]* cannot pass a ">", so the attribute stands
\* before the first ">" after "<div" and the tag ends with that ">".
MatchOpenDiv(html, target_id, a) ==
  LET Attr(g) ==
        IF /\ g # -1
           /\ \E k \in (a + 5)..(g - Len(target_id) - 5) :
                MatchIdAttr(html, target_id, k)
          THEN g + 1 ELSE -1
  IN  IF /\ MatchAt(html, <<"<", "d", "i", "v">>, a)
         /\ a + 4 < Len(html)
         /\ IsSpace(html[a + 5])
        THEN Attr(Find(html, ">", a + 5))
        ELSE -1

CLOSE_DIV == <<"<", "/", "d", "i", "v", ">">>

\* Injector.inject_html(html_to_inject, target_id), lines 80-134, on an
\* Injector whose html is the text given, under the decorator of
\* error_handler: the new document, or None with the error logged.
inject_html(html, html_to_inject, target_id) ==
  LET None(error) == [none |-> TRUE, value |-> <<>>, logged |-> error]
      Prefix(lines, indent) == [n \in DOMAIN lines |-> indent \o lines[n]]
      \* lines 95-98
      Indented(base_indent) ==
        Join(Prefix(SplitLines(StripChars(html_to_inject, {"\n"}), 0),
                    base_indent \o _detect_indent_unit(html)),
             <<"\n">>)
      \* lines 117-134
      Result(base_indent, i, tag_end, close) ==
        [none |-> FALSE,
         value |-> Slice(html, 0, i) \o Slice(html, i, tag_end)
                     \o <<"\n">> \o Indented(base_indent) \o <<"\n">>
                     \o base_indent \o CLOSE_DIV
                     \o Slice(html, close + Len(CLOSE_DIV), Len(html)),
         logged |-> "none"]
      \* lines 104-115: the leftmost "<div ... id ...>" that a "</div>"
      \* follows
      Full(base_indent, matches) ==
        IF matches = {} THEN None("InjectionError")
        ELSE Result(base_indent, Least(matches),
                    MatchOpenDiv(html, target_id, Least(matches)),
                    FindSeq(html, CLOSE_DIV,
                            MatchOpenDiv(html, target_id, Least(matches))))
      Closed(i) ==
        /\ MatchOpenDiv(html, target_id, i) # -1
        /\ FindSeq(html, CLOSE_DIV, MatchOpenDiv(html, target_id, i)) # -1
      \* lines 83-92: the first line that starts, after blanks and tabs,
      \* with the opening tag
      Open(lines) ==
        IF lines = {} THEN None("HTMLElementNotFoundError")
        ELSE Full(Slice(html, Least(lines),
                        RunEnd(html, Least(lines), Blanks)),
                  {i \in 0..(Len(html) - 1) : Closed(i)})
  IN  Open({p \in 0..Len(html) :
              /\ LineStart(html, p)
              /\ MatchOpenDiv(html, target_id,
                              RunEnd(html, p, Blanks)) # -1})

\* What run_injection_pipeline returns when no entry was parsed.
NO_ENTRIES ==
  <<"E","r","r","o","r",":"," ","N","o"," ","v","a","l","i","d"," ",
    "B","i","b","T","e","X"," ","e","n","t","r","i","e","s"," ",
    "f","o","u","n","d",".">>

ALL == <<"A","l","l">>

\* Injector.run_injection_pipeline(html_text, bib_text, style, order,
\* group, target_id), lines 198-222.  group is "none" for None.  The
\* call ends with a value returned (None when inject_html returned
\* None) or with an exception: nothing in the function catches one.
run_injection_pipeline(html_text, bib_text, style, order, group, target_id, refspec) ==
  LET Raised(e) == [raised |-> TRUE, exc |-> e]
      Return(v) == [raised |-> FALSE, none |-> FALSE, value |-> v]
      \* lines 219-222
      Injected(r) ==
        [raised |-> FALSE, none |-> r.none, value |-> r.value]
      Inject(combined_html) ==
        IF combined_html.raised THEN combined_html
        ELSE IF Strip(html_text) = <<>> THEN Raised("TemplateReadError")
        ELSE Injected(inject_html(html_text, combined_html.value, target_id))
      \* lines 211-216
      Grouped(entries) ==
        IF group = "none"
          THEN << [key |-> ALL, value |-> entries] >>
          ELSE group_entries(entries, group, TRUE)
      \* lines 206-208
      Ordered(entries) ==
        Inject(render_groups(Grouped(order_entries(entries, order = "desc",
                                                   group)),
                             order = "desc", style, refspec))
      \* lines 199-203
      Parsed(parsed) ==
        IF parsed.none THEN Raised("AttributeError")
        ELSE IF parsed.data.entries = <<>> THEN Return(NO_ENTRIES)
        ELSE Ordered(parsed.data.entries)
  IN  Parsed(FreshParse(bib_text, TRUE))

(* ------------------------------------------------------------------ *)
(* The style files and the calls of the rendering code.                 *)
(* ------------------------------------------------------------------ *)

\* The style "apa", a file of refspec/ with a block for each of the
\* types article, book and misc:
\*   <!-- Article -->
\*   <p id="bi-article">
\*     {{author}}. ({{year}}). {{title}}. <em>{{volume}}</em>({{number}}), {{pages}}.
\*   </p>
\*     <p  id="bi-book" class="b">
\*       {{ author }}. <em>{{title}}</em>, {{publisher}}, {{year}}.
\*     </p>
\*   <p id="bi-misc">
\*     {{title}}
\*     {{ note }}.
\*   </p>
\*   
STYLE_APA ==
    <<"<","!","-","-"," ","A","r","t","i","c","l","e"," ","-","-",">","\n",
      "<","p"," ","i","d","=","\"","b","i","-","a","r","t","i","c","l","e",
      "\"",">","\n"," "," ","{","{","a","u","t","h","o","r","}","}","."," ",
      "(","{","{","y","e","a","r","}","}",")","."," ","{","{","t","i","t",
      "l","e","}","}","."," ","<","e","m",">","{","{","v","o","l","u","m",
      "e","}","}","<","/","e","m",">","(","{","{","n","u","m","b","e","r",
      "}","}",")",","," ","{","{","p","a","g","e","s","}","}",".","\n","<",
      "/","p",">","\n"," "," ","<","p"," "," ","i","d","=","\"","b","i","-",
      "b","o","o","k","\""," ","c","l","a","s","s","=","\"","b","\"",">",
      "\n"," "," "," "," ","{","{"," ","a","u","t","h","o","r"," ","}","}",
      "."," ","<","e","m",">","{","{","t","i","t","l","e","}","}","<","/",
      "e","m",">",","," ","{","{","p","u","b","l","i","s","h","e","r","}",
      "}",","," ","{","{","y","e","a","r","}","}",".","\n"," "," ","<","/",
      "p",">","\n","<","p"," ","i","d","=","\"","b","i","-","m","i","s","c",
      "\"",">","\n"," "," ","{","{","t","i","t","l","e","}","}","\n"," ",
      " ","{","{"," ","n","o","t","e"," ","}","}",".","\n","<","/","p",">",
      "\n">>

\* The style "plain", whose article block stands on a single line:
\*   <p id="bi-article">{{author}}. ({{year}}). {{title}}.</p>
STYLE_PLAIN ==
    <<"<","p"," ","i","d","=","\"","b","i","-","a","r","t","i","c","l","e",
      "\"",">","{","{","a","u","t","h","o","r","}","}","."," ","(","{","{",
      "y","e","a","r","}","}",")","."," ","{","{","t","i","t","l","e","}",
      "}",".","<","/","p",">">>

\* The files of refspec/: the two styles and an empty file.  There is
\* no file for the style "nostyle".
RefSpec ==
  ("apa" :> STYLE_APA) @@ ("plain" :> STYLE_PLAIN)
    @@ ("blank" :> <<" ", "\n">>)

\* The entry lists that are grouped and rendered, as indexes of
\* EntryPool: years that are all numbers, entries with and without a
\* year, a year that is no number, several months of one year.
RenderLists ==
  { <<>>, <<1>>, <<1, 2>>, <<2, 1, 3>>, <<3, 4, 1>>, <<1, 5>>, <<5, 6>>,
    <<4, 6>>, <<8, 2, 1>>, <<7, 8, 2>>, <<2, 7, 4>>, <<6>>, <<3, 5, 2>> }

FOO == <<"F","o","o">>
BAR == <<"B","a","r">>
Y2024 == <<"2","0","2","4">>
Y2023 == <<"2","0","2","3">>

\* (year, month) mappings a caller builds by hand: month keys that are
\* no month names stand before and after "Unknown".
CallerGroups ==
  { << [key |-> Y2024,
        value |-> << [key |-> FOO, value |-> << EntryPool[1] >>],
                     [key |-> UNKNOWN, value |-> << EntryPool[7] >>],
                     [key |-> MONTH_ORDER[7], value |-> << EntryPool[2] >>],
                     [key |-> MONTH_ORDER[3], value |-> << EntryPool[8] >>] >>] >>,
    << [key |-> Y2023,
        value |-> << [key |-> UNKNOWN, value |-> << EntryPool[3] >>],
                     [key |-> BAR, value |-> << EntryPool[3] >>] >>],
       [key |-> Y2024,
        value |-> << [key |-> MONTH_ORDER[12], value |-> << EntryPool[1] >>],
                     [key |-> BAR, value |-> << EntryPool[2] >>],
                     [key |-> MONTH_ORDER[1], value |-> << EntryPool[2] >>],
                     [key |-> FOO, value |-> << EntryPool[8] >>] >>] >> }

\* The calls render_groups(grouped, reverse) on a
\* GroupHTMLGenerator(style): grouped is what group_entries returned for
\* a list of entries, or a mapping of the caller.
RenderGroupsCalls ==
  { [op |-> "render_groups", source |-> "group_entries",
     grouped |-> group_entries([k \in DOMAIN l |-> EntryPool[l[k]]], by, TRUE),
     reverse |-> r, style |-> s] :
      l \in RenderLists, by \in {"author", "year", "year/month"},
      r \in BOOLEAN, s \in {"apa", "plain"} }
  \cup
  { [op |-> "render_groups", source |-> "caller", grouped |-> g,
     reverse |-> r, style |-> "apa"] :
      g \in CallerGroups, r \in BOOLEAN }

\* render_groups is called.
RenderGroups ==
  /\ h_call.op = "render_groups"
  /\ ~h_done
  /\ h_done' = TRUE
  /\ h_out' = render_groups(h_call.grouped, h_call.reverse, h_call.style,
                            RefSpec)
  /\ UNCHANGED <<parser_vars, group_vars, h_call, injector_html>>

\* The opening and the closing tag _render is given around a body.
P_OPEN ==
    <<"<","p"," ","i","d","=","\"","b","i","-","a","r","t","i","c","l","e",
      "\"",">","\n">>

P_CLOSE == <<"<","/","p",">">>

TITLE1 == <<"t","i","t","l","e">>
NUMBER == <<"n","u","m","b","e","r">>

\* The pieces template bodies are made of: text that holds no
\* placeholder, and placeholders {{ name }} with the white space written
\* before and after the name.
BodyPieces ==
  << [kind |-> "text", text |-> <<"."," ">>],
     [kind |-> "text", text |-> <<" ","(">>],
     [kind |-> "text", text |-> <<")">>],
     [kind |-> "text", text |-> <<"{","{">>],
     [kind |-> "text", text |-> <<"{"," ","{","y","e","a","r","}"," ","}">>],
     [kind |-> "text", text |-> <<"<","e","m",">","{","{","a"," ","b","}","}","<","/","e","m",">">>],
     [kind |-> "field", name |-> AUTHOR, lead |-> <<>>, trail |-> <<>>],
     [kind |-> "field", name |-> YEAR, lead |-> <<" ">>, trail |-> <<" ">>],
     [kind |-> "field", name |-> TITLE1, lead |-> <<"\t">>, trail |-> <<"\n", " ">>],
     [kind |-> "field", name |-> NUMBER, lead |-> <<>>, trail |-> <<" ">>] >>

\* The text of a piece, as it stands in the template.
PieceText(p) ==
  IF p.kind = "text" THEN p.text
  ELSE <<"{", "{">> \o p.lead \o p.name \o p.trail \o <<"}", "}">>

\* The text of a body made of the pieces b (indexes of BodyPieces).
RECURSIVE BodyText(_)
BodyText(b) ==
  IF b = <<>> THEN <<>>
  ELSE PieceText(BodyPieces[Head(b)]) \o BodyText(Tail(b))

\* The bodies rendered: "{{author}}. ( {{ year }} ).", a body with every
\* placeholder, bodies where text with braces stands beside a
\* placeholder, a body without placeholder.
Bodies ==
  { <<7, 1, 2, 8, 3, 1>>, <<7, 1, 2, 8, 3, 1, 9, 1, 6, 2, 10, 3>>,
    <<4, 7>>, <<5, 8, 5>>, <<6, 2, 10, 3, 1>>, <<9, 9>>, <<10, 1, 10>>,
    <<1, 2, 3>>, <<4, 8, 1, 5>>, <<>> }

\* The fields of the entries rendered: all the fields of the bodies but
\* number; a value that reads as a placeholder; an empty value; none.
FieldSets ==
  { (AUTHOR :> <<"A","."," ","B",".">>) @@ (YEAR :> <<"2","0","2","0">>) @@ (TITLE1 :> <<"T">>),
    (AUTHOR :> <<"{","{","y","e","a","r","}","}">>) @@ (YEAR :> <<"2","0","2","0">>),
    (AUTHOR :> <<"A","l">>) @@ (YEAR :> <<>>) @@ (NUMBER :> <<"{","{"," ","n","o","p","e"," ","}","}">>),
    (TITLE1 :> <<"T"," ","(","x",")">>),
    NoFields }

\* The calls _render([opening tag, body, closing tag]) on a Generator
\* whose entry has the fields given.
RenderCalls ==
  { [op |-> "render", body |-> b, fields |-> f] :
      b \in Bodies, f \in FieldSets }

\* _render is called.
Render ==
  /\ h_call.op = "render"
  /\ ~h_done
  /\ h_done' = TRUE
  /\ h_out' = _render(<<P_OPEN, BodyText(h_call.body), P_CLOSE>>,
                      h_call.fields)
  /\ UNCHANGED <<parser_vars, group_vars, h_call, injector_html>>

\* The two bodies of the specification's examples, after substitution.
TRIM_EX1 == <<"A","."," ","B",".","."," ","(","2","0","2","0",")",".">>
TRIM_EX2 ==
    <<"<","e","m",">","1","2","<","/","e","m",">","(",")",","," ","1","2",
      "-","-","2","3",".">>

\* The texts handed to _trim.
TrimTexts ==
  { TRIM_EX1, TRIM_EX2,
    <<"a"," ","("," ",")"," ",","," ","b"," ",".">>,
    <<"a"," ","(","("," ",")",")"," ",".">>,
    <<"x"," ",","," ",","," ","y"," ","."," ","."," ","z">>,
    <<"a"," ",",","."," ","b",",",","," ","c">>,
    <<".",".",".">>,
    <<"l","1"," "," ","\n"," "," ","l","2"," ",",","\n","."," ","l","3"," ">>,
    <<" ","("," ","\n"," ",")"," ","a"," "," ","b">>,
    <<"(","a",")"," ",","," ","(","b",")",".">>,
    <<"a","\n"," "," ","b"," "," ","c"," ","\n">>,
    <<"W","a","i","t",".",".","."," ","(","2","0","2","0",")",".">>,
    <<"a",",",",",","," ","b"," "," "," "," ","c">>,
    <<>> }

\* The calls _trim(text).
TrimCalls == { [op |-> "trim", text |-> t] : t \in TrimTexts }

\* _trim is called.
Trim ==
  /\ h_call.op = "trim"
  /\ ~h_done
  /\ h_done' = TRUE
  /\ h_out' = _trim(h_call.text)
  /\ UNCHANGED <<parser_vars, group_vars, h_call, injector_html>>

\* The entries handed to generate_html: an article without doi field,
\* and the same with a doi that is empty, plain, or holds a backslash.
GenFields ==
  (AUTHOR :> <<"J","."," ","C",".">>) @@ (YEAR :> <<"2","0","1","3">>) @@ (TITLE1 :> <<"T">>)

Dois ==
  { <<>>, <<"1","0",".","1","/","x">>, <<"1","0",".","1","\\","1","x">>,
    <<"1","0",".","1","\\","_","x">>, <<"1","0",".","1","\\","g","x">> }

ICON == <<"i",".","p","n","g">>

GenEntries ==
  { [type |-> <<"a","r","t","i","c","l","e">>, key |-> K1, fields |-> GenFields],
    [type |-> <<"b","o","o","k">>, key |-> K2, fields |-> GenFields],
    [type |-> <<"t","h","e","s","i","s">>, key |-> K2, fields |-> GenFields] }
  \cup
  { [type |-> <<"a","r","t","i","c","l","e">>, key |-> K1,
     fields |-> GenFields @@ (DOI :> d)] : d \in Dois }

\* The calls Generator(entry, style, doi_icon).generate_html(); the
\* doi_icon <<>> stands for None.
GenerateHtmlCalls ==
  { [op |-> "generate_html", entry |-> e, style |-> s, doi_icon |-> i] :
      e \in GenEntries, s \in {"apa", "plain", "blank", "nostyle"},
      i \in {<<>>, ICON} }

\* generate_html is called.
GenerateHtml ==
  /\ h_call.op = "generate_html"
  /\ ~h_done
  /\ h_done' = TRUE
  /\ h_out' = generate_html(h_call.entry, h_call.style, h_call.doi_icon,
                            RefSpec)
  /\ UNCHANGED <<parser_vars, group_vars, h_call, injector_html>>

(* ------------------------------------------------------------------ *)
(* Specification of the rendering code: one call of render_groups,      *)
(* generate_html, _render or _trim.                                     *)
(* ------------------------------------------------------------------ *)

InitRender ==
  /\ ParserInit
  /\ expand_strings = TRUE
  /\ GroupIdle
  /\ g_entries = <<>>
  /\ h_done = FALSE
  /\ h_out = <<>>
  /\ injector_html = <<>>
  /\ \/ h_call \in RenderGroupsCalls
     \/ h_call \in GenerateHtmlCalls
     \/ h_call \in RenderCalls
     \/ h_call \in TrimCalls

NextRender ==
  \/ RenderGroups
  \/ GenerateHtml
  \/ Render
  \/ Trim

SpecRender == InitRender /\ [][NextRender]_vars

(* ------------------------------------------------------------------ *)
(* Properties of the rendering code.                                    *)
(* ------------------------------------------------------------------ *)

\* The texts that stand between the tags open and close in html, from
\* the Python index i on, in the order of the document.
RECURSIVE HeadingsFrom(_, _, _, _)
HeadingsFrom(html, open, close, i) ==
  LET Cut(a, b) ==
        IF b = -1 THEN <<>>
        ELSE << Slice(html, a + Len(open), b) >>
               \o HeadingsFrom(html, open, close, b + Len(close))
      At(a) ==
        IF a = -1 THEN <<>>
        ELSE Cut(a, FindSeq(html, close, a + Len(open)))
  IN  At(FindSeq(html, open, i))

H2Headings(html) ==
  HeadingsFrom(html, <<"<","h","2",">">>, <<"<","/","h","2",">">>, 0)

H3Headings(html) ==
  HeadingsFrom(html, <<"<","h","3",">">>, <<"<","/","h","3",">">>, 0)

\* The block of the group named name: from its <h2> heading to the next
\* <h2>, or to the end of the document.
BlockOf(html, name) ==
  LET To(a, b) == Slice(html, a, IF b = -1 THEN Len(html) ELSE b)
      From(a) == To(a, FindSeq(html, <<"<","h","2",">">>, a + 1))
  IN  From(FindSeq(html, H2(name), 0))

\* Whether the group key a may stand before the group key b: two keys
\* that read as integers by their numbers, two other keys by their
\* lowercased text, descending when reverse.
KeysInOrder(a, b, reverse) ==
  LET Ordered(x, y) == x = y \/ LessSeq(x, y)
      Texts(x, y) == IF reverse THEN Ordered(y, x) ELSE Ordered(x, y)
  IN  IF IntOf(a).ok /\ IntOf(b).ok
        THEN (IF reverse THEN IntOf(a).value >= IntOf(b).value
                         ELSE IntOf(a).value <= IntOf(b).value)
      ELSE IF ~IntOf(a).ok /\ ~IntOf(b).ok
        THEN Texts(CodePoints(Lower(a)), CodePoints(Lower(b)))
      ELSE TRUE

\* A render_groups call that is done, on a mapping from the source
\* given, with a style that has a block for every entry type.
RenderedFrom(source) ==
  /\ h_done
  /\ h_call.op = "render_groups"
  /\ h_call.source = source
  /\ h_call.style = "apa"

\* C11: render_groups returns the HTML for every mapping group_entries
\* produced, also one whose keys mix integer years with "Unknown": every
\* group has its block, and the blocks stand in sorted key order
\* (integers numerically, other keys case-insensitively as text,
\* reverse flipping the order).
C11_GroupBlocksSorted ==
  RenderedFrom("group_entries") =>
    /\ ~h_out.raised
    /\ LET InOrder2(hs) ==
             /\ Len(hs) = Len(h_call.grouped)
             /\ Range(hs) = Range(Keys(h_call.grouped))
             /\ \A i \in 1..(Len(hs) - 1) :
                  KeysInOrder(hs[i], hs[i + 1], h_call.reverse)
       IN  InOrder2(H2Headings(h_out.value))

\* The month names among keys, in calendar order.
NamedMonths(keys) ==
  LET Present(m) == m \in Range(keys)
  IN  SelectSeq(month_names, Present)

\* A render_groups call that returned, on a (year, month) mapping.
RenderedNested ==
  /\ h_done
  /\ h_call.op = "render_groups"
  /\ \A i \in DOMAIN h_call.grouped : IsDict(h_call.grouped[i].value)
  /\ ~h_out.raised

PieceValue(p, fields) ==
  IF p.kind = "text" THEN p.text
  ELSE IF p.name \in DOMAIN fields THEN fields[p.name]
  ELSE <<>>

RECURSIVE BodyValue(_, _)
BodyValue(b, fields) ==
  IF b = <<>> THEN <<>>
  ELSE PieceValue(BodyPieces[Head(b)], fields) \o BodyValue(Tail(b), fields)

\* The names of the placeholders of a body whose field the entry has
\* not, in the order of the body.
RECURSIVE MissingFields(_, _)
MissingFields(b, fields) ==
  IF b = <<>> THEN <<>>
  ELSE (IF BodyPieces[Head(b)].kind = "field"
             /\ BodyPieces[Head(b)].name \notin DOMAIN fields
          THEN << BodyPieces[Head(b)].name >> ELSE <<>>)
         \o MissingFields(Tail(b), fields)

\* C13: _render replaces every placeholder {{ name }} of the body, white
\* space around the name ignored, by the value of the field name, and by
\* the empty string with one warning when the entry has no such field;
\* the call returns in every case, and what was put in is not scanned
\* for placeholders again.
C13_PlaceholdersReplaced ==
  (h_done /\ h_call.op = "render") =>
    /\ h_out.middle = BodyValue(h_call.body, h_call.fields)
    /\ h_out.warnings = MissingFields(h_call.body, h_call.fields)
    /\ StartsWith(h_out.value, P_OPEN)

\* A body was rendered that holds a placeholder with white space around
\* the name, a placeholder of a field the entry has not, and a
\* placeholder whose value reads as a placeholder itself.
C13_Witness ==
  /\ h_done
  /\ h_call.op = "render"
  /\ \E i \in DOMAIN h_call.body :
       /\ BodyPieces[h_call.body[i]].kind = "field"
       /\ BodyPieces[h_call.body[i]].lead # <<>>
       /\ BodyPieces[h_call.body[i]].name \in DOMAIN h_call.fields
  /\ h_out.warnings # <<>>
  /\ \E i \in DOMAIN h_call.body :
       /\ BodyPieces[h_call.body[i]].kind = "field"
       /\ BodyPieces[h_call.body[i]].name \in DOMAIN h_call.fields
       /\ Contains(h_call.fields[BodyPieces[h_call.body[i]].name],
                   <<"{", "{">>)
  /\ Contains(h_out.middle, <<"{", "{", "y", "e", "a", "r", "}", "}">>)

TRIM_OUT1 == <<"A",".", " ", "B", ".", " ", "(", "2", "0", "2", "0", ")", ".">>

TRIM_OUT2 ==
  <<"<","e","m",">","1","2","<","/","e","m",">",","," ","1","2","-","-","2","3",".">>

\* Whether text holds a parenthesis pair with nothing but white space
\* between "(" and ")".
HasEmptyParens(text) ==
  \E i \in 0..(Len(text) - 1) : Bracketed(text, i, "(", ")") # -1

\* Whether such a pair stands directly inside another pair of text.
HasNestedEmptyParens(text) ==
  \E i \in 0..(Len(text) - 1) :
    LET Inner(a) == a < Len(text) /\ Bracketed(text, a, "(", ")") # -1
        Outer(a) ==
          /\ Inner(a)
          /\ Bracketed(text, a, "(", ")") < Len(text)
          /\ text[RunEnd(text, Bracketed(text, a, "(", ")"), WhiteSpace) + 1] = ")"
    IN  text[i + 1] = "(" /\ Outer(RunEnd(text, i + 1, WhiteSpace))

\* Whether white space stands before a comma or a period of text.
HasSpaceBeforePunctuation(text) ==
  \E i \in 1..(Len(text) - 1) :
    IsSpace(text[i]) /\ text[i + 1] \in {",", "."}

FragmentOf(c) ==
  generate_html([c.entry EXCEPT !.fields = GenFields], c.style, <<>>, RefSpec)

\* text with link put immediately after its first opening tag.
LinkAfterFirstTag(text, link) ==
  LET After(g) == Slice(text, 0, g + 1) \o link
                    \o Slice(text, g + 1, Len(text))
  IN  After(Find(text, ">", 0))

\* C15: where the fragment of an entry renders, generate_html returns
\* it unchanged when the doi field is absent or empty, and otherwise
\* returns it with exactly the link to https://doi.org/{doi} (icon and
\* label when a doi_icon was given, the text "DOI" otherwise) put
\* immediately after the first opening tag and nothing else changed.
C15_DoiLinkInserted ==
  (h_done /\ h_call.op = "generate_html" /\ ~FragmentOf(h_call).raised) =>
    /\ ~h_out.raised
    /\ h_out.value =
         IF Get(h_call.entry.fields, DOI, <<>>) = <<>>
           THEN FragmentOf(h_call).value
           ELSE LinkAfterFirstTag(
                  FragmentOf(h_call).value,
                  DOI_HREF \o h_call.entry.fields[DOI]
                    \o (IF h_call.doi_icon = <<>> THEN DOI_TEXT_END
                        ELSE DOI_ICON_SRC \o h_call.doi_icon
                               \o DOI_ICON_END))

(* ------------------------------------------------------------------ *)
(* The host documents and the calls of inject_html and of               *)
(* run_injection_pipeline.                                              *)
(* ------------------------------------------------------------------ *)

T_ID == <<"t">>

\* Hosts written as the text before the line part of the container, the
\* blanks before its opening tag, the opening tag, the interior and the
\* text after the closing tag.  The container stands at the start of a
\* line, after indentation or after other markup of its line; its id is
\* written in double or in single quotes; its interior is empty, white
\* space, or text without elements, on the line of the tag or on an
\* indented line of its own; another element with the same id may
\* follow, indented or not; a line of one space may stand before the
\* line of the container.
HostParts ==
  { [before |-> b, indent |-> n, open |-> o, interior |-> i, after |-> a] :
      b \in { <<>>, <<"<","h","1",">","T","<","/","h","1",">","\n">>,
              <<"<","h","1",">","T","<","/","h","1",">","\n"," ","\n">>,
              <<"<","b","o","d","y",">">>, <<"<","p",">","x","<","/","p",">"," ">> },
      n \in { <<>>, <<" ", " ">> },
      o \in { <<"<","d","i","v"," ","i","d","=","\"","t","\"",">">>,
              <<"<","d","i","v"," ","c","l","a","s","s","=","\"","c","\"",
                " ","i","d","=","'","t","'",">">> },
      i \in { <<>>, <<" ", " ", " ">>, <<"O", "L", "D">>,
              <<"\n"," "," "," "," ","O","L","D","\n">> },
      a \in { <<>>,
              <<"\n","<","d","i","v"," ","i","d","=","\"","t","\"",">","B",
                "<","/","d","i","v",">">>,
              <<"\n"," "," "," "," ","<","d","i","v"," ","i","d","=","\"","t",
                "\"",">","B","<","/","d","i","v",">">> } }

HostOf(p) == p.before \o p.indent \o p.open \o p.interior \o CLOSE_DIV \o p.after

\* Hosts of other shapes: the id on a span; on a section that a div with
\* the same id follows; a div whose data-id attribute has the value,
\* alone and before the div with the id; no element with the id; a
\* container that is not closed.
OtherHosts ==
  { <<"<","s","p","a","n"," ","i","d","=","\"","t","\"",">","O","L","D","<",
      "/","s","p","a","n",">">>,
    <<"<","s","e","c","t","i","o","n"," ","i","d","=","\"","t","\"",">","O",
      "L","D","<","/","s","e","c","t","i","o","n",">","\n","<","d","i","v",
      " ","i","d","=","\"","t","\"",">","B","<","/","d","i","v",">">>,
    <<"<","d","i","v"," ","d","a","t","a","-","i","d","=","\"","t","\"",">",
      "K","E","E","P","<","/","d","i","v",">">>,
    <<"<","d","i","v"," ","d","a","t","a","-","i","d","=","\"","t","\"",">",
      "K","E","E","P","<","/","d","i","v",">","\n","<","d","i","v"," ","i",
      "d","=","\"","t","\"",">","O","L","D","<","/","d","i","v",">">>,
    <<"<","d","i","v"," ","i","d","=","\"","o","t","h","e","r","\"",">","<",
      "/","d","i","v",">">>,
    <<"<","d","i","v"," ","i","d","=","\"","t","\"",">","O","L","D">> }

\* What is injected: one line; two lines with a line break at the end;
\* a div element; an indented line between empty lines.
Contents ==
  { <<"X">>,
    <<"<","p",">","a","<","/","p",">","\n","<","p",">","b","<","/","p",">",
      "\n">>,
    <<"<","d","i","v",">","a","<","/","d","i","v",">">>,
    <<"\n"," "," ","X","\n","\n">> }

\* The calls Injector(html, is_path=False).inject_html(html_to_inject,
\* target_id).
InjectHtmlCalls ==
  { [op |-> "inject_html", html |-> h, html_to_inject |-> c, target_id |-> T_ID] :
      h \in {HostOf(p) : p \in HostParts} \cup OtherHosts, c \in Contents }

\* inject_html is called; self.html is read and never assigned.
InjectHtml ==
  /\ h_call.op = "inject_html"
  /\ ~h_done
  /\ h_done' = TRUE
  /\ h_out' = inject_html(injector_html, h_call.html_to_inject,
                          h_call.target_id)
  /\ UNCHANGED <<parser_vars, group_vars, h_call, injector_html>>

PUBS == <<"p","u","b","s">>

\* The bibliography
\*   @article{C13, author={J. C.}, year={2013}, title={T}}
BIB_C13 ==
  <<"@","a","r","t","i","c","l","e","{","C","1","3",","," ","a","u","t","h",
    "o","r","=","{","J","."," ","C",".","}",","," ","y","e","a","r","=","{",
    "2","0","1","3","}",","," ","t","i","t","l","e","=","{","T","}","}">>

\* Two articles of different years, the second with a month:
\*   @article{C13, author={J. C.}, year={2013}, title={T}}
\*   @article{D12, author={A. D.}, year={2012}, month={mar}, title={U}}
BIB_TWO ==
  <<"@","a","r","t","i","c","l","e","{","C","1","3",","," ","a","u","t","h",
    "o","r","=","{","J","."," ","C",".","}",","," ","y","e","a","r","=","{",
    "2","0","1","3","}",","," ","t","i","t","l","e","=","{","T","}","}",
    "\n","@","a","r","t","i","c","l","e","{","D","1","2",","," ","a","u",
    "t","h","o","r","=","{","A","."," ","D",".","}",","," ","y","e","a","r",
    "=","{","2","0","1","2","}",","," ","m","o","n","t","h","=","{","m","a",
    "r","}",","," ","t","i","t","l","e","=","{","U","}","}","\n">>

\* A book and a thesis; the styles have no block for a thesis:
\*   @book{B1, author={J. C.}, year={2013}, title={T}}
\*   @thesis{T1, author={A. D.}, title={U}}
BIB_THESIS ==
  <<"@","b","o","o","k","{","B","1",","," ","a","u","t","h","o","r","=","{",
    "J","."," ","C",".","}",","," ","y","e","a","r","=","{","2","0","1","3",
    "}",","," ","t","i","t","l","e","=","{","T","}","}","\n","@","t","h",
    "e","s","i","s","{","T","1",","," ","a","u","t","h","o","r","=","{","A",
    "."," ","D",".","}",","," ","t","i","t","l","e","=","{","U","}","}">>

\* An entry whose braces are not closed.
BIB_MALFORMED ==
  <<"@","a","r","t","i","c","l","e","{","C","1","3",","," ","a","u","t","h",
    "o","r","=","{","J">>

\* Text without entry.
BIB_NONE == <<"%"," ","n","o","n","e","\n">>

HOST_PUBS ==
  <<"<","d","i","v"," ","i","d","=","\"","p","u","b","s","\"",">","<","/",
    "d","i","v",">">>

PipelineHosts ==
  { HOST_PUBS,
    <<"<","d","i","v"," ","i","d","=","\"","o","t","h","e","r","\"",">","<",
      "/","d","i","v",">">>,
    <<"<","d","i","v"," ","i","d","=","\"","p","u","b","s","\"",">">>,
    <<"<","b","o","d","y",">","<","d","i","v"," ","i","d","=","\"","p","u",
      "b","s","\"",">","<","/","d","i","v",">","<","/","b","o","d","y",">">>,
    <<" ", "\n">> }

\* The calls Injector.run_injection_pipeline(html_text, bib_text, style,
\* order, group, target_id) with the files of RefSpec in refspec/; the
\* group "none" stands for None.
PipelineCalls ==
  { [op |-> "run_injection_pipeline", html_text |-> h, bib_text |-> b,
     style |-> s, order |-> og[1], group |-> og[2], target_id |-> PUBS] :
      h \in PipelineHosts,
      b \in {BIB_C13, BIB_TWO, BIB_THESIS, BIB_MALFORMED, BIB_NONE},
      s \in {"apa", "plain", "nostyle"},
      og \in { <<"asc", "none">>, <<"desc", "year">>, <<"asc", "author">>,
               <<"desc", "year/month">> } }

\* run_injection_pipeline is called.  Its Parser, GroupHTMLGenerator and
\* Injector are objects of the call.
RunInjectionPipeline ==
  /\ h_call.op = "run_injection_pipeline"
  /\ ~h_done
  /\ h_done' = TRUE
  /\ h_out' = run_injection_pipeline(h_call.html_text, h_call.bib_text,
                                     h_call.style, h_call.order,
                                     h_call.group, h_call.target_id,
                                     RefSpec)
  /\ UNCHANGED <<parser_vars, group_vars, h_call, injector_html>>

(* ------------------------------------------------------------------ *)
(* Specification of the injection code: one call of inject_html on an   *)
(* Injector made from the host text, or one call of                     *)
(* run_injection_pipeline.                                              *)
(* ------------------------------------------------------------------ *)

InitInject ==
  /\ ParserInit
  /\ expand_strings = TRUE
  /\ GroupIdle
  /\ g_entries = <<>>
  /\ h_done = FALSE
  /\ h_out = <<>>
  /\ \/ /\ h_call \in InjectHtmlCalls
        /\ injector_html = h_call.html
     \/ /\ h_call \in PipelineCalls
        /\ injector_html = <<>>

NextInject ==
  \/ InjectHtml
  \/ RunInjectionPipeline

SpecInject == InitInject /\ [][NextInject]_vars

(* ------------------------------------------------------------------ *)
(* Properties of the injection code.                                    *)
(* ------------------------------------------------------------------ *)

\* Whether an opening tag of html starts at the Python index i and has
\* an attribute id with the value target_id, in double or single
\* quotes.
CarriesId(html, target_id, i) ==
  /\ i + 1 < Len(html)
  /\ html[i + 1] = "<"
  /\ IsAlpha(html[i + 2])
  /\ Find(html, ">", i) # -1
  /\ \E k \in (i + 2)..(Find(html, ">", i) - 1) :
       IsSpace(html[k]) /\ MatchIdAttr(html, target_id, k)

\* Where the first element of html with that id starts, or -1.
FirstWithId(html, target_id) ==
  LET At(hits) == IF hits = {} THEN -1 ELSE Least(hits)
  IN  At({i \in 0..(Len(html) - 1) : CarriesId(html, target_id, i)})

\* Where the closing tag of the element starts whose opening tag starts
\* at i (the hosts of the model nest no element in one of the same
\* name), or -1.
ClosingTagOf(html, i) ==
  FindSeq(html,
          <<"<", "/">>
            \o Slice(html, i + 1,
                     RunEnd(html, i + 1,
                            Range(UpperLetters) \cup Range(LowerLetters)))
            \o <<">">>,
          Find(html, ">", i))

\* The blanks at the start of the last line of s.
LineIndent(s) ==
  LET From(a) == Slice(s, a, RunEnd(s, a, Blanks))
      Breaks == {j \in 1..Len(s) : s[j] = "\n"}
  IN  From(IF Breaks = {} THEN 0
           ELSE CHOOSE j \in Breaks : \A b \in Breaks : b <= j)

\* The lines of injected without the empty lines at its ends, each after
\* prefix, joined by line breaks.
Reindented(injected, prefix) ==
  LET Lines(ls) == Join([n \in DOMAIN ls |-> prefix \o ls[n]], <<"\n">>)
  IN  Lines(SplitLines(StripChars(injected, {"\n"}), 0))

\* The host of the parts p with the interior of the container replaced
\* by a line break, the injected text re-indented by the base indent and the
\* indent unit of the host whose container is empty, a line break and
\* the base indent.
InjectedInto(p, injected) ==
  LET Doc(base, unit) ==
        p.before \o p.indent \o p.open \o <<"\n">>
          \o Reindented(injected, base \o unit) \o <<"\n">> \o base
          \o CLOSE_DIV \o p.after
  IN  Doc(LineIndent(p.before \o p.indent),
          _detect_indent_unit(HostOf([p EXCEPT !.interior = <<>>])))

\* C16: for a host whose container with the target id is empty, white
\* space or text without elements, inject_html returns the host with
\* the interior of the container replaced by a line break, the
\* re-indented content, a line break and the base indent; the result is
\* the same whatever the interior was.
C16_InteriorReplaced ==
  (h_done /\ h_call.op = "inject_html") =>
    \A p \in HostParts :
      HostOf(p) = h_call.html =>
        /\ ~h_out.none
        /\ h_out.value = InjectedInto(p, h_call.html_to_inject)

\* C17: inject_html reports HTMLElementNotFoundError exactly when the
\* host has no element whose id attribute is target_id, wherever the
\* opening tag of such an element stands and whichever quotes the value
\* has, and then it returns no document.
C17_NotFoundIffNoElement ==
  (h_done /\ h_call.op = "inject_html") =>
    /\ (h_out.logged = "HTMLElementNotFoundError")
         <=> (FirstWithId(h_call.html, h_call.target_id) = -1)
    /\ h_out.logged = "HTMLElementNotFoundError" => h_out.none

\* C18: inject_html returns the host with nothing but the interior of
\* the first element that carries target_id changed (the text up to the
\* end of its opening tag and the text from its closing tag on are those
\* of the host), and the html of the Injector stays as it was.
C18_OnlyFirstInteriorChanged ==
  (h_done /\ h_call.op = "inject_html") =>
    /\ injector_html = h_call.html
    /\ LET html == h_call.html
           first == FirstWithId(h_call.html, h_call.target_id)
           tag_end == Find(h_call.html, ">", first) + 1
           close == ClosingTagOf(h_call.html, first)
       IN  (first # -1 /\ close # -1) =>
             /\ ~h_out.none
             /\ Len(h_out.value) >= tag_end + Len(html) - close
             /\ Slice(h_out.value, 0, tag_end) = Slice(html, 0, tag_end)
             /\ Slice(h_out.value,
                      Len(h_out.value) - (Len(html) - close),
                      Len(h_out.value))
                  = Slice(html, close, Len(html))

(* ------------------------------------------------------------------ *)
(* Properties of the pipeline.                                          *)
(* ------------------------------------------------------------------ *)

P_ARTICLE ==
  <<"<","p"," ","i","d","=","\"","b","i","-","a","r","t","i","c","l","e",
    "\"",">">>

RENDERED_C13 ==
  <<"J","."," ","C","."," ","(","2","0","1","3",")","."," ","T",".">>

\* C19: for the bibliography BIB_C13, the style "plain" (the single-line
\* article block) and the host <div id="pubs"></div>, the pipeline
\* returns a document that is the pubs element, and its interior holds
\* the article paragraph with "J. C. (2013). T." and the closing tag of
\* the paragraph.
C19_EndToEnd ==
  ( /\ h_done
    /\ h_call.op = "run_injection_pipeline"
    /\ h_call.bib_text = BIB_C13
    /\ h_call.style = "plain"
    /\ h_call.html_text = HOST_PUBS ) =>
    /\ ~h_out.raised
    /\ ~h_out.none
    /\ StartsWith(h_out.value, Slice(HOST_PUBS, 0, Len(HOST_PUBS) - 6))
    /\ MatchAt(h_out.value, CLOSE_DIV, Len(h_out.value) - 6)
    /\ FindSeq(h_out.value, P_ARTICLE, 0) # -1
    /\ FindSeq(h_out.value, RENDERED_C13,
               FindSeq(h_out.value, P_ARTICLE, 0)) # -1
    /\ FindSeq(h_out.value, P_CLOSE,
               FindSeq(h_out.value, RENDERED_C13, 0)) # -1

\* The exception classes of error_handler.py, each named after the
\* stage that failed.
StageErrors ==
  { "TemplateNotFoundError", "TemplateReadError",
    "HTMLElementNotFoundError", "InjectionError", "ParsingError",
    "OrderingError", "GroupingError", "FileNotFoundError",
    "FileWriteError", "FileReadError", "EmptyFileError" }

\* C20: a call of the pipeline ends with a document or the text of an
\* error returned, or with one of the errors of error_handler.py
\* raised; it never ends with another exception and never returns
\* nothing.
C20_TaggedError ==
  (h_done /\ h_call.op = "run_injection_pipeline") =>
    IF h_out.raised THEN h_out.exc \in StageErrors ELSE ~h_out.none

(* ------------------------------------------------------------------ *)
(* Properties of the parser: diagnostics and field values.              *)
(* ------------------------------------------------------------------ *)

\* An iteration of the loop that met an entry whose key was seen before:
\* the entry is not stored and the loop goes on.
DroppedDuplicate ==
  /\ pc = "scan"
  /\ pc' = "scan"
  /\ scanned' = scanned + 1
  /\ NextType(content, pos) \notin {<<>>, COMMENT, PREAMBLE, STRINGTAG}
  /\ data' = data

\* C21: when an entry is dropped because its key was seen before, the
\* loop goes on with the following blocks and a record about the
\* duplicate key is sent to the logger.
C21_DuplicateLogged ==
  [][DroppedDuplicate =>
       /\ Len(log_records') = Len(log_records) + 1
       /\ log_records'[Len(log_records')].about = "duplicate key"]_vars

(* ------------------------------------------------------------------ *)
(* The calls of _parse_entry.                                           *)
(* ------------------------------------------------------------------ *)

\* Assignments as they are written in an entry, each with a name of its
\* own: values in braces, in quotes and bare; braces inside braces, one,
\* two and three deep; braces inside quotes; white space inside the
\* delimiters; a name with a hyphen.
FieldPool ==
  << \* title = {T}
     [name |-> TITLE, form |-> "brace", body |-> <<"T">>],
     \* note = " N "
     [name |-> NOTE, form |-> "quote", body |-> <<" ", "N", " ">>],
     \* year = 2013
     [name |-> <<"y","e","a","r">>, form |-> "bare",
      body |-> <<"2","0","1","3">>],
     \* name = {{Inner}}
     [name |-> <<"n","a","m","e">>, form |-> "brace",
      body |-> <<"{","I","n","n","e","r","}">>],
     \* abstract = "{X}"
     [name |-> <<"a","b","s","t","r","a","c","t">>, form |-> "quote",
      body |-> <<"{","X","}">>],
     \* pages = {1 {2} 3}
     [name |-> <<"p","a","g","e","s">>, form |-> "brace",
      body |-> <<"1"," ","{","2","}"," ","3">>],
     \* series = {a {b {c}}}
     [name |-> SERIES, form |-> "brace",
      body |-> <<"a"," ","{","b"," ","{","c","}","}">>],
     \* e-print = {x, y}
     [name |-> <<"e","-","p","r","i","n","t">>, form |-> "brace",
      body |-> <<"x",","," ","y">>] >>

MaxFields == 3

\* The sequences of at most n different assignments of the pool, as
\* indexes of FieldPool.
RECURSIVE FieldLists(_)
FieldLists(n) ==
  IF n = 0 THEN {<<>>}
  ELSE LET Longer(shorter) ==
             shorter \cup
               UNION { {Append(fs, i) : i \in DOMAIN FieldPool \ Range(fs)} :
                         fs \in shorter }
       IN  Longer(FieldLists(n - 1))

\* The text between the braces of the entry @article{k1, ...} with the
\* assignments fs, as _parse_entry gets it from parse_string: the lines
\* joined by the re.sub of line 68.
EntryContent(fs) ==
  NormalizeLines(K1 \o FieldsText([i \in DOMAIN fs |-> FieldPool[fs[i]]])
                   \o <<"\n">>)

\* The calls _parse_entry("article", text) on a new Parser.
ParseEntryCalls ==
  { [op |-> "parse_entry", entry_type |-> <<"a","r","t","i","c","l","e">>,
     written |-> fs, text |-> EntryContent(fs)] :
      fs \in FieldLists(MaxFields) }

\* _parse_entry is called.
CallParseEntry ==
  /\ h_call.op = "parse_entry"
  /\ ~h_done
  /\ h_done' = TRUE
  /\ h_out' = ParseEntry(h_call.entry_type, h_call.text, expand_strings,
                         MacroTable(data))
  /\ UNCHANGED <<parser_vars, group_vars, h_call, injector_html>>

(* ------------------------------------------------------------------ *)
(* Specification of _parse_entry: one call on a new Parser.             *)
(* ------------------------------------------------------------------ *)

InitEntry ==
  /\ ParserInit
  /\ GroupIdle
  /\ g_entries = <<>>
  /\ h_call \in ParseEntryCalls
  /\ h_done = FALSE
  /\ h_out = <<>>
  /\ injector_html = <<>>

NextEntry == CallParseEntry

SpecEntry == InitEntry /\ [][NextEntry]_vars

\* The assignments written in the entry of the call.
WrittenFields == {FieldPool[h_call.written[i]] : i \in DOMAIN h_call.written}

\* C22: a field that is stored has the text written between its
\* outermost pair of braces or quotes, without the white space around
\* it: one layer of delimiters is removed and braces inside are kept
\* (name = {{Inner}} is stored as {Inner}, abstract = "{X}" as {X}).
C22_OneLayerStripped ==
  (h_done /\ h_call.op = "parse_entry") =>
    \A f \in WrittenFields :
      f.name \in DOMAIN h_out.fields =>
        h_out.fields[f.name] = Strip(f.body)

\* C23: every assignment written in the entry is in its fields,
\* whatever the depth of the braces of a value and whatever precedes
\* it.
C23_NoAssignmentLost ==
  (h_done /\ h_call.op = "parse_entry") =>
    \A f \in WrittenFields : f.name \in DOMAIN h_out.fields

(* ------------------------------------------------------------------ *)
(* Properties of the cleanup pass as a whole.                           *)
(* ------------------------------------------------------------------ *)

\* How many line breaks text holds.
LineBreakCount(text) == Cardinality({i \in DOMAIN text : text[i] = "\n"})

\* C24: the text _trim returns holds as many line breaks as the text it
\* was given.
C24_LineBreaksPreserved ==
  (h_done /\ h_call.op = "trim") =>
    LineBreakCount(h_out) = LineBreakCount(h_call.text)

\* C30: _trim applied to what _trim returned changes nothing, and what
\* one pass returns holds no two periods in a row, no two commas in a
\* row and no two spaces in a row.
C30_TrimIdempotent ==
  (h_done /\ h_call.op = "trim") =>
    /\ _trim(h_out) = h_out
    /\ ~Contains(h_out, <<".", ".">>)
    /\ ~Contains(h_out, <<",", ",">>)
    /\ ~Contains(h_out, <<" ", " ">>)

(* ------------------------------------------------------------------ *)
(* Properties of repeated injection and of the indentation.             *)
(* ------------------------------------------------------------------ *)

\* C25: injecting the same text again into the document inject_html
\* returned gives that document again.
C25_RepeatedInjection ==
  (h_done /\ h_call.op = "inject_html" /\ ~h_out.none) =>
    /\ ~inject_html(h_out.value, h_call.html_to_inject,
                    h_call.target_id).none
    /\ inject_html(h_out.value, h_call.html_to_inject,
                   h_call.target_id).value = h_out.value

\* The leading white space of the first line of html that has some, two
\* spaces when no line has.
FirstIndent(html) ==
  LET Unit(lines, hits) ==
        IF hits = {} THEN <<" ", " ">>
        ELSE Slice(lines[Least(hits)], 0,
                   LeadIn(lines[Least(hits)], WhiteSpace))
      Scan(lines) ==
        Unit(lines, {n \in DOMAIN lines : LeadIn(lines[n], WhiteSpace) > 0})
  IN  Scan(SplitLines(html, 0))

\* C26: in the document inject_html returns, the interior of the
\* container is the lines of the injected text, without the empty lines
\* at its ends, each after the base indent and the indent unit, where
\* the base indent is the leading white space of the line that holds
\* the opening tag of the container, and the indent unit that of the
\* first line of the host that has leading white space, or two spaces.
C26_Reindentation ==
  (h_done /\ h_call.op = "inject_html" /\ ~h_out.none) =>
    \A p \in HostParts :
      HostOf(p) = h_call.html =>
        h_out.value =
          p.before \o p.indent \o p.open \o <<"\n">>
            \o Reindented(h_call.html_to_inject,
                          LineIndent(p.before \o p.indent)
                            \o FirstIndent(h_call.html))
            \o <<"\n">> \o LineIndent(p.before \o p.indent)
            \o CLOSE_DIV \o p.after

\* C27: grouping by author loses no entry: every entry handed to
\* group_entries(by="author") is in at least one bucket of the result,
\* also an entry with no author field or an empty one.
C27_AuthorGroupingKeepsAll ==
  (g_op = "group" /\ g_by = "author") =>
    \A i \in DOMAIN g_entries :
      \E k \in DOMAIN g_out : g_entries[i] \in Range(g_out[k].value)

\* C29: ordering and grouping agree on the month of an entry: the entry
\* that year_month_key of order_entries gives the month number m in
\* 1..12 is filed by group_entries under the m-th month name, and the
\* entry it gives 0 is filed under "Unknown".
C29_MonthsAgree ==
  (g_op = "group" /\ IsYearMonthGroup(g_by)) =>
    \A i \in DOMAIN g_entries :
      LET m == year_month_key(g_entries[i])[2]
          name == MONTH_ORDER[IF m = 0 THEN Len(MONTH_ORDER) ELSE m]
      IN  \E y \in DOMAIN g_out :
            /\ HasKey(g_out[y].value, name)
            /\ g_entries[i] \in Range(Value(g_out[y].value, name))

\* The buckets of the result of group_entries by year (<<y>>) or by
\* year and month (<<y, m>>), by their positions in the mapping.
BucketIds ==
  IF IsYearMonthGroup(g_by)
    THEN UNION {{<<y, m>> : m \in DOMAIN g_out[y].value} : y \in DOMAIN g_out}
    ELSE {<<y>> : y \in DOMAIN g_out}

\* The entries of the bucket b.
BucketAt(b) ==
  IF Len(b) = 2 THEN g_out[b[1]].value[b[2]].value ELSE g_out[b[1]].value

\* C28: year and year/month grouping is an order-preserving partition:
\* every entry of the input is in exactly one bucket of the result, and
\* every bucket is the input list restricted to the entries it holds,
\* in input order.
C28_OrderPreservingPartition ==
  (g_op = "group" /\ g_by # "author") =>
    /\ \A i \in DOMAIN g_entries :
         Cardinality({b \in BucketIds :
                        g_entries[i] \in Range(BucketAt(b))}) = 1
    /\ \A b \in BucketIds :
         LET Held(e) == e \in Range(BucketAt(b))
         IN  BucketAt(b) = SelectSeq(g_entries, Held)

\* C28 witness: of three entries of 2024, those of March and January,
\* the two of March are in one bucket in input order and the one of
\* January is alone in the other.
C28_Witness ==
  /\ g_op = "group"
  /\ g_by = "year/month"
  /\ g_entries = <<EntryPool[1], EntryPool[2], EntryPool[8]>>
  /\ g_out = << [key |-> EntryPool[1].fields[YEAR],
                 value |-> << [key |-> MONTH_ORDER[3],
                               value |-> <<EntryPool[1], EntryPool[8]>>],
                              [key |-> MONTH_ORDER[1],
                               value |-> <<EntryPool[2]>>] >>] >>

====
